---- MODULE Spec2Model ----
(***************************************************************************)
(* Verification model of the console banking simulator.                    *)
(*                                                                         *)
(* Two implementations of the same domain live in the repository:          *)
(*   conta_bancaria.py     one class ContaBancaria holding lists of dicts  *)
(*   conta_bancaria_v2.py  Cliente / ContaBancaria / Transacao classes and *)
(*                         menu functions driven by iniciar()              *)
(* A run executes one of them; the variable prog says which.               *)
(* Amounts are whole currency units (integers).  The clock is the day the  *)
(* timestamp of datetime.now() falls on.                                   *)
(*                                                                         *)
(* Three specifications share the actions:                                 *)
(*   Spec       a whole run of either program from an empty bank           *)
(*   SpecConta  one new account under transactions, within one day         *)
(*   SpecDias   one new account under transactions, over two days          *)
(***************************************************************************)
EXTENDS Integers, Sequences, FiniteSets, TLC

VARIABLES
    prog,             \* which program runs: "v1" (conta_bancaria.py) or "v2" (conta_bancaria_v2.py)
    hoje,             \* the day datetime.now() falls on
    clientes,         \* v2: Banco._clientes, each client holding its list contas
    contador_contas,  \* v2: ContaBancaria.contador_contas, the suffix counter per account type
    v1_clientes,      \* v1: ContaBancaria.clientes
    v1_contas,        \* v1: ContaBancaria.contas
    v1_contador,      \* v1: ContaBancaria.contador_contas
    ultimo            \* the last request for a change: its inputs, its message and its return value

vars == <<prog, hoje, clientes, contador_contas,
          v1_clientes, v1_contas, v1_contador, ultimo>>

v2vars == <<clientes, contador_contas>>
v1vars == <<v1_clientes, v1_contas, v1_contador>>

----------------------------------------------------------------------------
(* Bounds of the model *)

\* size of a run: 2 for each client registered, 2 for each account created so far,
\* 1 for each ledger record held
MaxTamanho == 7
\* ledger records of an account followed alone
MaxRegistros == 5
\* the records of the checking account that the scenarios follow
MaxCenario == 6

(* Input sets *)

\* amounts typed by the user or passed by a caller
Valores == {-100, 0, 100, 600}
\* amounts typed at the menu of a whole run
ValoresMenu == {0, 100}
\* amounts of the transactions of an account followed over two days
ValoresDias == {100, 600}
\* CPF / CNPJ values typed by the user
Identificadores == {"111", "222"}
\* the personal data of a client (name, birth date, address), opaque to the rules:
\* what is typed when the client is registered, and what is typed at an update,
\* where "" is every answer left blank
DadosCadastro == {"d1"}
DadosNovos == {"d2", ""}
\* the amounts typed at the opening prompt of a savings account, and what is typed
\* there in one call: nothing, one amount, or two
ValoresAbertura == {50, 100}
Digitados ==
    {<<>>} \cup {<<a>> : a \in ValoresAbertura}
           \cup {<<a, b>> : a \in ValoresAbertura, b \in ValoresAbertura}
Dias == {"dia1", "dia2"}
Tipos == {"corrente", "poupanca"}

(* Program constants *)

\* ContaCorrente.__init__: limite=500
Limite == 500
\* ContaCorrente.__init__: limite_saque=3
LimiteSaque == 3
\* ContaPoupanca.__init__: deposito_minimo=100
DepositoMinimo == 100
\* criar_nova_conta: if valor >= 100
MinimoAbertura == 100

\* contador_contas = {"corrente": [1234, 0], "poupanca": [4321, 0]}
Prefixo(tipo) == IF tipo = "corrente" THEN 1234 ELSE 4321

----------------------------------------------------------------------------
(* conta_bancaria_v2.py: the classes *)

\* faulty variants of adicionar_transacao: the record put first, the list replaced
AdicionarTransacaoNoInicio(extrato, tipo, valor, data) ==
    <<[tipo |-> tipo, valor |-> valor, data |-> data]>> \o extrato
AdicionarTransacaoSubstitui(extrato, tipo, valor, data) ==
    <<[tipo |-> tipo, valor |-> valor, data |-> data]>>
\* ImprimirExtrato.adicionar_transacao: append {"tipo", "valor", "data"}
AdicionarTransacao(extrato, tipo, valor, data) ==
    Append(extrato, [tipo |-> tipo, valor |-> valor, data |-> data])

\* len([t for t in extrato.transacoes if t["tipo"] == nome])
RECURSIVE ContarTipo(_, _)
ContarTipo(extrato, tipo) ==
    IF extrato = <<>> THEN 0
    ELSE (IF Head(extrato).tipo = tipo THEN 1 ELSE 0) + ContarTipo(Tail(extrato), tipo)

\* ContaBancaria.__init__ via ContaCorrente / ContaPoupanca: a new account object.
\* registros, depositos and saques are history, not fields of the object: the number
\* of registrar calls on the account that have returned a transaction, and the number
\* of times its depositar and its sacar have credited and debited the balance
NovaConta(tipo, numero, cliente) ==
    [tipo |-> tipo, numero |-> numero, cliente |-> cliente,
     saldo |-> 0, extrato |-> <<>>, registros |-> 0, depositos |-> 0, saques |-> 0]

Resultado(conta, ok, msg) == [conta |-> conta, ok |-> ok, msg |-> msg]

\* faulty variants of ContaBancaria.sacar: no balance check, the debit made before it,
\* one message for both rejections, no check of the sign of the amount
ContaBancaria_sacar_SemSaldo(conta, valor) ==
    IF valor > 0
    THEN Resultado([conta EXCEPT !.saldo = @ - valor], TRUE, "Sucesso")
    ELSE Resultado(conta, FALSE, "ValorInvalido")
ContaBancaria_sacar_DebitaAntes(conta, valor) ==
    IF valor > conta.saldo
    THEN Resultado([conta EXCEPT !.saldo = @ - valor], FALSE, "SaldoInsuficiente")
    ELSE IF valor > 0
         THEN Resultado([conta EXCEPT !.saldo = @ - valor], TRUE, "Sucesso")
         ELSE Resultado(conta, FALSE, "ValorInvalido")
ContaBancaria_sacar_UmMotivo(conta, valor) ==
    IF valor > 0 /\ valor <= conta.saldo
    THEN Resultado([conta EXCEPT !.saldo = @ - valor], TRUE, "Sucesso")
    ELSE Resultado(conta, FALSE, "ValorInvalido")
ContaBancaria_sacar_SemValor(conta, valor) ==
    IF valor > conta.saldo
    THEN Resultado(conta, FALSE, "SaldoInsuficiente")
    ELSE Resultado([conta EXCEPT !.saldo = @ - valor], TRUE, "Sucesso")
\* ContaBancaria.sacar
ContaBancaria_sacar(conta, valor) ==
    IF valor > conta.saldo
    THEN Resultado(conta, FALSE, "SaldoInsuficiente")
    ELSE IF valor > 0
         THEN Resultado([conta EXCEPT !.saldo = @ - valor, !.saques = @ + 1],
                        TRUE, "Sucesso")
         ELSE Resultado(conta, FALSE, "ValorInvalido")

\* faulty variants of ContaBancaria.depositar: saldo = valor for saldo += valor,
\* valor < 0 for valor <= 0
ContaBancaria_depositar_Atribui(conta, valor) ==
    IF valor <= 0
    THEN Resultado(conta, FALSE, "ValorInvalido")
    ELSE Resultado([conta EXCEPT !.saldo = valor], TRUE, "Sucesso")
ContaBancaria_depositar_AceitaZero(conta, valor) ==
    IF valor < 0
    THEN Resultado(conta, FALSE, "ValorInvalido")
    ELSE Resultado([conta EXCEPT !.saldo = @ + valor], TRUE, "Sucesso")
\* ContaBancaria.depositar
ContaBancaria_depositar(conta, valor) ==
    IF valor <= 0
    THEN Resultado(conta, FALSE, "ValorInvalido")
    ELSE Resultado([conta EXCEPT !.saldo = @ + valor, !.depositos = @ + 1],
                   TRUE, "Sucesso")

\* faulty variants of ContaCorrente.sacar: no cap check, no ceiling check, the cap
\* checked before the ceiling
ContaCorrente_sacar_SemLimiteSaques(conta, valor) ==
    IF valor > Limite THEN Resultado(conta, FALSE, "LimiteExcedido")
    ELSE ContaBancaria_sacar(conta, valor)
ContaCorrente_sacar_SemLimite(conta, valor) ==
    IF ContarTipo(conta.extrato, "Saque") >= LimiteSaque THEN Resultado(conta, FALSE, "SaquesExcedidos")
    ELSE ContaBancaria_sacar(conta, valor)
ContaCorrente_sacar_SaquesPrimeiro(conta, valor) ==
    IF ContarTipo(conta.extrato, "Saque") >= LimiteSaque THEN Resultado(conta, FALSE, "SaquesExcedidos")
    ELSE IF valor > Limite THEN Resultado(conta, FALSE, "LimiteExcedido")
    ELSE ContaBancaria_sacar(conta, valor)
\* ContaCorrente.sacar
ContaCorrente_sacar(conta, valor) ==
    LET numero_saques  == ContarTipo(conta.extrato, "Saque")
        excedeu_limite == valor > Limite
        excedeu_saques == numero_saques >= LimiteSaque
    IN  IF excedeu_limite THEN Resultado(conta, FALSE, "LimiteExcedido")
        ELSE IF excedeu_saques THEN Resultado(conta, FALSE, "SaquesExcedidos")
        ELSE ContaBancaria_sacar(conta, valor)

\* ContaPoupanca.depositar: the return value of super().depositar is dropped
ContaPoupanca_depositar(conta, valor) ==
    IF valor > 0
    THEN Resultado(ContaBancaria_depositar(conta, valor).conta, TRUE, "Sucesso")
    ELSE Resultado(conta, FALSE, "ValorInvalido")

\* faulty variant of the dispatch: every account withdraws by the rules of ContaCorrente
Conta_sacar_SempreCorrente(conta, valor) == ContaCorrente_sacar(conta, valor)
\* conta.sacar(valor=valor): method dispatch on the account's class
Conta_sacar(conta, valor) ==
    IF conta.tipo = "corrente" THEN ContaCorrente_sacar(conta, valor)
    ELSE ContaBancaria_sacar(conta, valor)

\* conta.depositar(valor): method dispatch on the account's class
Conta_depositar(conta, valor) ==
    IF conta.tipo = "poupanca" THEN ContaPoupanca_depositar(conta, valor)
    ELSE ContaBancaria_depositar(conta, valor)

\* faulty variant of Saque.registrar: the rules see only the records of the day
Saque_registrar_SoDoDia(conta, valor, data) ==
    LET doDia == SelectSeq(conta.extrato, LAMBDA t : t.data = data)
        r     == Conta_sacar([conta EXCEPT !.extrato = doDia], valor)
    IN  IF r.ok
        THEN [conta |-> [r.conta EXCEPT
                            !.extrato = AdicionarTransacao(conta.extrato, "Saque", valor, data),
                            !.registros = @ + 1],
              msg |-> r.msg,
              retorno |-> <<[tipo |-> "Saque", valor |-> valor]>>]
        ELSE [conta |-> conta, msg |-> r.msg, retorno |-> <<>>]
\* Saque.registrar: the returned transaction is <<t>>, None is <<>>
Saque_registrar(conta, valor, data) ==
    LET r == Conta_sacar(conta, valor)
    IN  IF r.ok
        THEN [conta |-> [r.conta EXCEPT
                            !.extrato = AdicionarTransacao(@, "Saque", valor, data),
                            !.registros = @ + 1],
              msg |-> r.msg,
              retorno |-> <<[tipo |-> "Saque", valor |-> valor]>>]
        ELSE [conta |-> r.conta, msg |-> r.msg, retorno |-> <<>>]

\* faulty variant of Deposito.registrar: the transaction is not added to the ledger
Deposito_registrar_SemExtrato(conta, valor, data) ==
    LET r == Conta_depositar(conta, valor)
    IN  IF r.ok
        THEN [conta |-> [r.conta EXCEPT !.registros = @ + 1],
              msg |-> r.msg,
              retorno |-> <<[tipo |-> "Deposito", valor |-> valor]>>]
        ELSE [conta |-> r.conta, msg |-> r.msg, retorno |-> <<>>]
\* Deposito.registrar
Deposito_registrar(conta, valor, data) ==
    LET r == Conta_depositar(conta, valor)
    IN  IF r.ok
        THEN [conta |-> [r.conta EXCEPT
                            !.extrato = AdicionarTransacao(@, "Deposito", valor, data),
                            !.registros = @ + 1],
              msg |-> r.msg,
              retorno |-> <<[tipo |-> "Deposito", valor |-> valor]>>]
        ELSE [conta |-> r.conta, msg |-> r.msg, retorno |-> <<>>]

----------------------------------------------------------------------------
(* conta_bancaria_v2.py: lookups *)

\* account numbers f"{prefixo}-{sufixo}" that exist or can be typed
Numeros == {<<Prefixo(t), k>> : t \in Tipos, k \in 0..MaxTamanho}

\* filtrar_cliente: position of the first client whose cpf or cnpj is the identifier, 0 for None
filtrar_cliente(identificador, cls) ==
    LET achados == {i \in 1..Len(cls) : cls[i].id = identificador}
    IN  IF achados = {} THEN 0
        ELSE CHOOSE i \in achados : \A k \in achados : i <= k

\* faulty variant of Banco.listar_contas: only the first account of each client
RECURSIVE Banco_listar_contas_de_SoPrimeira(_, _)
Banco_listar_contas_de_SoPrimeira(cls, i) ==
    IF i > Len(cls) THEN <<>>
    ELSE (IF cls[i].contas = <<>> THEN <<>> ELSE <<<<i, 1>>>>)
         \o Banco_listar_contas_de_SoPrimeira(cls, i + 1)
\* Banco.listar_contas: the accounts of all clients, in client order then account order,
\* each given by its place <<client position, account position>>
RECURSIVE Banco_listar_contas_de(_, _)
Banco_listar_contas_de(cls, i) ==
    IF i > Len(cls) THEN <<>>
    ELSE [j \in 1..Len(cls[i].contas) |-> <<i, j>>] \o Banco_listar_contas_de(cls, i + 1)

Banco_listar_contas(cls) == Banco_listar_contas_de(cls, 1)

ContaEm(cls, lugar) == cls[lugar[1]].contas[lugar[2]]

\* buscar_conta: the first account of the list whose number is numero_conta, <<>> for None
buscar_conta(cls, contas, numero_conta) ==
    LET achados == {k \in 1..Len(contas) : ContaEm(cls, contas[k]).numero = numero_conta}
    IN  IF achados = {} THEN <<>>
        ELSE contas[CHOOSE k \in achados : \A m \in achados : k <= m]

\* the account objects reachable from the bank
Contas == {ContaEm(clientes, Banco_listar_contas(clientes)[k]) :
              k \in 1..Len(Banco_listar_contas(clientes))}

TotalTransacoes ==
    LET lista == Banco_listar_contas(clientes)
        RECURSIVE soma(_)
        soma(k) == IF k > Len(lista) THEN 0
                   ELSE Len(ContaEm(clientes, lista[k]).extrato) + soma(k + 1)
    IN  soma(1)

ContasCriadas == contador_contas["corrente"] + contador_contas["poupanca"]

Tamanho == 2 * Len(clientes) + 2 * ContasCriadas + TotalTransacoes

\* the numbers a user types: those handed out so far and the next one of each type
NumerosDigitados ==
    {n \in Numeros : \E t \in Tipos : n[1] = Prefixo(t) /\ n[2] <= contador_contas[t]}

Op(op, cliente, conta, valor, msg, retorno) ==
    [op |-> op, cliente |-> cliente, conta |-> conta, valor |-> valor,
     msg |-> msg, retorno |-> retorno]

\* faulty variant: the outcome is written into every account of the client
AplicarRegistro_EmTodas(lugar, r) ==
    /\ clientes' = [clientes EXCEPT ![lugar[1]].contas = [j \in DOMAIN @ |-> r.conta]]
\* what a registrar call does to the bank: the account object is updated in place
AplicarRegistro(lugar, r) ==
    /\ clientes' = [clientes EXCEPT ![lugar[1]].contas[lugar[2]] = r.conta]

----------------------------------------------------------------------------
(* conta_bancaria_v2.py: the menu operations of iniciar() *)

\* option 1: sacar(banco.listar_contas())
sacar(numero_conta, valor) ==
    LET lugar == buscar_conta(clientes, Banco_listar_contas(clientes), numero_conta)
    IN  /\ prog = "v2"
        /\ IF lugar = <<>>
           THEN /\ ultimo' = Op("sacar", "", numero_conta, 0, "ContaNaoEncontrada", <<>>)
                /\ UNCHANGED v2vars
           ELSE IF valor <= 0
           THEN /\ ultimo' = Op("sacar", "", numero_conta, valor, "ValorInvalido", <<>>)
                /\ UNCHANGED v2vars
           ELSE IF valor > ContaEm(clientes, lugar).saldo
           THEN /\ ultimo' = Op("sacar", "", numero_conta, valor, "SaldoInsuficiente", <<>>)
                /\ UNCHANGED v2vars
           ELSE LET r == Saque_registrar(ContaEm(clientes, lugar), valor, hoje)
                IN  /\ AplicarRegistro(lugar, r)
                    /\ ultimo' = Op("sacar", "", numero_conta, valor, r.msg, r.retorno)
                    /\ UNCHANGED contador_contas
        /\ UNCHANGED <<prog, hoje, v1vars>>

\* option 2: depositar(banco.listar_contas())
depositar(numero_conta, valor) ==
    LET lugar == buscar_conta(clientes, Banco_listar_contas(clientes), numero_conta)
    IN  /\ prog = "v2"
        /\ IF lugar = <<>>
           THEN /\ ultimo' = Op("depositar", "", numero_conta, 0, "ContaNaoEncontrada", <<>>)
                /\ UNCHANGED v2vars
           ELSE IF valor <= 0
           THEN /\ ultimo' = Op("depositar", "", numero_conta, valor, "ValorInvalido", <<>>)
                /\ UNCHANGED v2vars
           ELSE LET r == Deposito_registrar(ContaEm(clientes, lugar), valor, hoje)
                IN  /\ AplicarRegistro(lugar, r)
                    /\ ultimo' = Op("depositar", "", numero_conta, valor, r.msg, r.retorno)
                    /\ UNCHANGED contador_contas
        /\ UNCHANGED <<prog, hoje, v1vars>>

\* option 3: imprimir_extrato(banco.listar_contas())
imprimir_extrato(numero_conta) ==
    LET lugar == buscar_conta(clientes, Banco_listar_contas(clientes), numero_conta)
        mostrado == IF lugar = <<>> THEN <<>> ELSE ContaEm(clientes, lugar).extrato
    IN  /\ prog = "v2"
        /\ mostrado \in Seq([tipo : {"Saque", "Deposito"}, valor : Int, data : Dias])
        /\ UNCHANGED vars

\* faulty variant of gerar_numero_conta: the counter is not advanced
gerar_numero_conta_SemAvanco(contador, tipo) ==
    [numero_conta |-> <<Prefixo(tipo), contador[tipo]>>, contador |-> contador]
\* ContaBancaria.gerar_numero_conta: the number handed out, the counter advanced
gerar_numero_conta(contador, tipo) ==
    [numero_conta |-> <<Prefixo(tipo), contador[tipo]>>,
     contador |-> [contador EXCEPT ![tipo] = @ + 1]]

\* ContaBancaria.criar_nova_conta (classmethod)
ContaBancaria_criar_nova_conta(contador, cliente, tipo_conta) ==
    LET g == gerar_numero_conta(contador, tipo_conta)
    IN  [conta |-> NovaConta(tipo_conta, g.numero_conta, cliente), contador |-> g.contador]

\* ContaPoupanca.numero_deposito: the Deposito records of the ledger
numero_deposito(conta) == ContarTipo(conta.extrato, "Deposito")

\* faulty variant of the opening loop: any amount typed is handed to conta.depositar
RECURSIVE deposito_inicial_SemMinimo(_, _)
deposito_inicial_SemMinimo(conta, digitados) ==
    IF digitados = <<>> \/ numero_deposito(conta) # 0
    THEN [conta |-> conta, aberta |-> FALSE, resto |-> digitados]
    ELSE IF Conta_depositar(conta, Head(digitados)).ok
         THEN [conta |-> Conta_depositar(conta, Head(digitados)).conta,
               aberta |-> TRUE, resto |-> Tail(digitados)]
         ELSE deposito_inicial_SemMinimo(conta, Tail(digitados))
\* criar_nova_conta, the while True loop of a savings account over the amounts typed
\* at its prompt: an amount below 100 is dropped and the prompt comes again, the first
\* amount of 100 or more that conta.depositar accepts ends the loop (aberta); resto is
\* what was typed beyond that, and the loop has not ended when aberta is FALSE
RECURSIVE deposito_inicial(_, _)
deposito_inicial(conta, digitados) ==
    IF digitados = <<>> \/ numero_deposito(conta) # 0
    THEN [conta |-> conta, aberta |-> FALSE, resto |-> digitados]
    ELSE IF Head(digitados) >= MinimoAbertura /\ Conta_depositar(conta, Head(digitados)).ok
         THEN [conta |-> Conta_depositar(conta, Head(digitados)).conta,
               aberta |-> TRUE, resto |-> Tail(digitados)]
         ELSE deposito_inicial(conta, Tail(digitados))

\* option 4: criar_nova_conta(banco.listar_clientes(), banco.listar_contas());
\* digitados are the amounts typed at the opening prompt of a savings account, all of
\* them (the call returns when the loop ends); a checking account is asked nothing
criar_nova_conta(identificador, tipo_conta, digitados) ==
    LET i == filtrar_cliente(identificador, clientes)
    IN  /\ prog = "v2"
        /\ IF i = 0
           THEN /\ ultimo' = Op("criar_nova_conta", identificador, <<>>, 0,
                                "ClienteNaoEncontrado", <<>>)
                /\ UNCHANGED v2vars
           ELSE LET c == ContaBancaria_criar_nova_conta(contador_contas, identificador, tipo_conta)
                    aberta == IF tipo_conta = "poupanca"
                              THEN deposito_inicial(c.conta, digitados)
                              ELSE [conta |-> c.conta, aberta |-> TRUE, resto |-> digitados]
                IN  /\ aberta.aberta
                    /\ aberta.resto = <<>>
                    /\ contador_contas' = c.contador
                    /\ clientes' = [clientes EXCEPT ![i].contas = Append(@, aberta.conta)]
                    /\ ultimo' = Op("criar_nova_conta", identificador, c.conta.numero,
                                    aberta.conta.saldo, "Sucesso", <<>>)
        /\ UNCHANGED <<prog, hoje, v1vars>>

\* faulty variant of cadastrar_cliente: the identifier is looked up only among the
\* clients of the same kind of person
cadastrar_cliente_SoMesmoTipo(tipo_pessoa, identificador, dados) ==
    /\ prog = "v2"
    /\ IF \E i \in 1..Len(clientes) :
             clientes[i].id = identificador /\ clientes[i].tipo = tipo_pessoa
       THEN /\ ultimo' = Op("cadastrar_cliente", identificador, <<>>, 0,
                            "ClienteJaCadastrado", <<>>)
            /\ UNCHANGED clientes
       ELSE /\ clientes' = Append(clientes, [tipo |-> tipo_pessoa, id |-> identificador,
                                             dados |-> dados, contas |-> <<>>])
            /\ ultimo' = Op("cadastrar_cliente", identificador, <<>>, 0, "Sucesso", <<>>)
    /\ UNCHANGED <<prog, hoje, contador_contas, v1vars>>
\* option 6: cadastrar_cliente(banco.listar_clientes())
cadastrar_cliente(tipo_pessoa, identificador, dados) ==
    /\ prog = "v2"
    /\ IF filtrar_cliente(identificador, clientes) # 0
       THEN /\ ultimo' = Op("cadastrar_cliente", identificador, <<>>, 0,
                            "ClienteJaCadastrado", <<>>)
            /\ UNCHANGED clientes
       ELSE /\ clientes' = Append(clientes, [tipo |-> tipo_pessoa, id |-> identificador,
                                             dados |-> dados, contas |-> <<>>])
            /\ ultimo' = Op("cadastrar_cliente", identificador, <<>>, 0, "Sucesso", <<>>)
    /\ UNCHANGED <<prog, hoje, contador_contas, v1vars>>

\* option 7: exibir_cliente(banco.listar_clientes())
exibir_cliente(identificador) ==
    /\ prog = "v2"
    /\ filtrar_cliente(identificador, clientes) \in 0..Len(clientes)
    /\ UNCHANGED vars

\* option 8: atualizar_cliente(banco.listar_clientes()); "" is an answer left blank
atualizar_cliente(identificador, dados) ==
    LET i == filtrar_cliente(identificador, clientes)
    IN  /\ prog = "v2"
        /\ IF i = 0
           THEN /\ ultimo' = Op("atualizar_cliente", identificador, <<>>, 0,
                                "ClienteNaoEncontrado", <<>>)
                /\ UNCHANGED clientes
           ELSE /\ clientes' = IF dados = "" THEN clientes
                               ELSE [clientes EXCEPT ![i].dados = dados]
                /\ ultimo' = Op("atualizar_cliente", identificador, <<>>, 0, "Sucesso", <<>>)
        /\ UNCHANGED <<prog, hoje, contador_contas, v1vars>>

RemoverPosicao(s, i) == [k \in 1..(Len(s) - 1) |-> IF k < i THEN s[k] ELSE s[k + 1]]

\* faulty variant of excluir_cliente: the accounts go whatever the first answer is
excluir_cliente_SemPergunta(identificador, confirmar_contas, confirmar_cliente) ==
    LET i == filtrar_cliente(identificador, clientes)
    IN  /\ prog = "v2"
        /\ IF i = 0
           THEN /\ ultimo' = Op("excluir_cliente", identificador, <<>>, 0,
                                "ClienteNaoEncontrado", <<>>)
                /\ UNCHANGED clientes
           ELSE LET sem_contas == [clientes EXCEPT ![i].contas = <<>>]
                IN  IF confirmar_cliente
                    THEN /\ clientes' = RemoverPosicao(sem_contas, i)
                         /\ ultimo' = Op("excluir_cliente", identificador, <<>>, 0,
                                         "Sucesso", <<>>)
                    ELSE /\ clientes' = sem_contas
                         /\ ultimo' = Op("excluir_cliente", identificador, <<>>, 0,
                                         "ExclusaoCancelada", <<>>)
        /\ UNCHANGED <<prog, hoje, contador_contas, v1vars>>
\* option 9: excluir_cliente(banco.listar_clientes(), banco.listar_contas());
\* confirmar_contas and confirmar_cliente are the answers to the two prompts
excluir_cliente(identificador, confirmar_contas, confirmar_cliente) ==
    LET i == filtrar_cliente(identificador, clientes)
    IN  /\ prog = "v2"
        /\ IF i = 0
           THEN /\ ultimo' = Op("excluir_cliente", identificador, <<>>, 0,
                                "ClienteNaoEncontrado", <<>>)
                /\ UNCHANGED clientes
           ELSE IF clientes[i].contas # <<>> /\ ~confirmar_contas
           THEN /\ ultimo' = Op("excluir_cliente", identificador, <<>>, 0,
                                "ContasAtivas", <<>>)
                /\ UNCHANGED clientes
           ELSE LET sem_contas == [clientes EXCEPT ![i].contas = <<>>]
                IN  IF confirmar_cliente
                    THEN /\ clientes' = RemoverPosicao(sem_contas, i)
                         /\ ultimo' = Op("excluir_cliente", identificador, <<>>, 0,
                                         "Sucesso", <<>>)
                    ELSE /\ clientes' = sem_contas
                         /\ ultimo' = Op("excluir_cliente", identificador, <<>>, 0,
                                         "ExclusaoCancelada", <<>>)
        /\ UNCHANGED <<prog, hoje, contador_contas, v1vars>>

\* option 10: listar_contas(banco.listar_clientes())
listar_contas ==
    /\ prog = "v2"
    /\ UNCHANGED vars

----------------------------------------------------------------------------
(* conta_bancaria_v2.py: the method of Cliente that no menu option calls *)

\* Cliente.realizar_transacao(conta, Saque, valor): Saque.registrar(conta, valor)
realizar_transacao_Saque(numero_conta, valor) ==
    LET lugar == buscar_conta(clientes, Banco_listar_contas(clientes), numero_conta)
    IN  /\ prog = "v2"
        /\ lugar # <<>>
        /\ LET r == Saque_registrar(ContaEm(clientes, lugar), valor, hoje)
           IN  /\ AplicarRegistro(lugar, r)
               /\ ultimo' = Op("Saque.registrar", "", numero_conta, valor, r.msg, r.retorno)
        /\ UNCHANGED <<prog, hoje, contador_contas, v1vars>>

\* Cliente.realizar_transacao(conta, Deposito, valor): Deposito.registrar(conta, valor)
realizar_transacao_Deposito(numero_conta, valor) ==
    LET lugar == buscar_conta(clientes, Banco_listar_contas(clientes), numero_conta)
    IN  /\ prog = "v2"
        /\ lugar # <<>>
        /\ LET r == Deposito_registrar(ContaEm(clientes, lugar), valor, hoje)
           IN  /\ AplicarRegistro(lugar, r)
               /\ ultimo' = Op("Deposito.registrar", "", numero_conta, valor, r.msg, r.retorno)
        /\ UNCHANGED <<prog, hoje, contador_contas, v1vars>>

----------------------------------------------------------------------------
\* datetime.now(): the day changes between two operations
PassarDia ==
    /\ hoje = "dia1"
    /\ hoje' = "dia2"
    /\ UNCHANGED <<prog, v2vars, v1vars, ultimo>>

----------------------------------------------------------------------------
(* conta_bancaria.py: class ContaBancaria, the first implementation.        *)
(* A client is the dict {cpf, dados}; an account is the dict {numero_conta, *)
(* cliente, tipo_conta, saldo, extrato, saques_diarios}; its cliente is the *)
(* cpf of the client dict it refers to, "" when the reference is None.      *)
(* A statement line is the text "<data> <= Saque: R$ <valor>" or            *)
(* "<data> => Deposito: R$ <valor>", kept as its three parts.               *)
(* depositos and saques are history, as in the second implementation: the  *)
(* number of calls that have credited and debited the balance.              *)

\* __init__: limite=500
V1Limite == 500
\* __init__: limite_saques=3
V1LimiteSaques == 3
\* __init__: contador_contas = {"corrente": 1000, "poupanca": 5000}
V1Base(tipo) == IF tipo = "corrente" THEN 1000 ELSE 5000

V1Numeros == {V1Base(t) + k : t \in Tipos, k \in 0..MaxTamanho}

\* decoradores.log_transacao: envelope prints when the result is truthy and returns nothing
log_transacao(resultado) == <<>>

\* ContaBancaria.filtrar_cliente: position of the first client with the cpf, 0 for None
V1_filtrar_cliente(cpf, cls) ==
    LET achados == {i \in 1..Len(cls) : cls[i].cpf = cpf}
    IN  IF achados = {} THEN 0
        ELSE CHOOSE i \in achados : \A k \in achados : i <= k

\* ContaBancaria.buscar_conta: position of the first account with the number, 0 for None
V1_buscar_conta(contas, numero_conta) ==
    LET achados == {i \in 1..Len(contas) : contas[i].numero_conta = numero_conta}
    IN  IF achados = {} THEN 0
        ELSE CHOOSE i \in achados : \A k \in achados : i <= k

V1TotalTransacoes ==
    LET RECURSIVE soma(_)
        soma(k) == IF k > Len(v1_contas) THEN 0
                   ELSE Len(v1_contas[k].extrato) + soma(k + 1)
    IN  soma(1)

V1ContasCriadas ==
    (v1_contador["corrente"] - V1Base("corrente")) + (v1_contador["poupanca"] - V1Base("poupanca"))

V1Tamanho == 2 * Len(v1_clientes) + 2 * V1ContasCriadas + V1TotalTransacoes

V1NumerosDigitados == {n \in V1Numeros : \E t \in Tipos : V1Base(t) <= n /\ n <= v1_contador[t]}

\* faulty variant of sacar: the ceiling and the cap are applied to checking accounts only
V1_sacar_conta_SoCorrente(conta, valor, data) ==
    IF valor <= 0 THEN Resultado(conta, FALSE, "ValorInvalido")
    ELSE IF valor > conta.saldo THEN Resultado(conta, FALSE, "SaldoInsuficiente")
    ELSE IF conta.tipo_conta = "corrente" /\ valor > V1Limite
    THEN Resultado(conta, FALSE, "LimiteExcedido")
    ELSE IF conta.tipo_conta = "corrente" /\ conta.saques_diarios >= V1LimiteSaques
    THEN Resultado(conta, FALSE, "SaquesExcedidos")
    ELSE Resultado([conta EXCEPT
                       !.saldo = @ - valor,
                       !.extrato = Append(@, [tipo |-> "Saque", valor |-> valor, data |-> data]),
                       !.saques_diarios = @ + 1,
                       !.saques = @ + 1],
                   TRUE, "Sucesso")
\* ContaBancaria.sacar, the body under the decorator: the account after the call and the result
V1_sacar_conta(conta, valor, data) ==
    IF valor <= 0 THEN Resultado(conta, FALSE, "ValorInvalido")
    ELSE IF valor > conta.saldo THEN Resultado(conta, FALSE, "SaldoInsuficiente")
    ELSE IF valor > V1Limite THEN Resultado(conta, FALSE, "LimiteExcedido")
    ELSE IF conta.saques_diarios >= V1LimiteSaques
    THEN Resultado(conta, FALSE, "SaquesExcedidos")
    ELSE Resultado([conta EXCEPT
                       !.saldo = @ - valor,
                       !.extrato = Append(@, [tipo |-> "Saque", valor |-> valor, data |-> data]),
                       !.saques_diarios = @ + 1,
                       !.saques = @ + 1],
                   TRUE, "Sucesso")

\* ContaBancaria.depositar, the body under the decorator
V1_depositar_conta(conta, valor, data) ==
    IF valor <= 0 THEN Resultado(conta, FALSE, "ValorInvalido")
    ELSE Resultado([conta EXCEPT
                       !.saldo = @ + valor,
                       !.extrato = Append(@, [tipo |-> "Deposito", valor |-> valor, data |-> data]),
                       !.depositos = @ + 1],
                   TRUE, "Sucesso")

\* ContaBancaria.sacar(valor=valor)
V1_sacar(numero_conta, valor) ==
    LET i == V1_buscar_conta(v1_contas, numero_conta)
    IN  /\ prog = "v1"
        /\ IF i = 0
           THEN /\ ultimo' = Op("v1_sacar", "", <<numero_conta>>, valor,
                                "ContaNaoEncontrada", log_transacao(FALSE))
                /\ UNCHANGED v1_contas
           ELSE LET r == V1_sacar_conta(v1_contas[i], valor, hoje)
                IN  /\ v1_contas' = [v1_contas EXCEPT ![i] = r.conta]
                    /\ ultimo' = Op("v1_sacar", "", <<numero_conta>>, valor,
                                    r.msg, log_transacao(r.ok))
        /\ UNCHANGED <<prog, hoje, v2vars, v1_clientes, v1_contador>>

\* ContaBancaria.depositar(valor)
V1_depositar(numero_conta, valor) ==
    LET i == V1_buscar_conta(v1_contas, numero_conta)
    IN  /\ prog = "v1"
        /\ IF i = 0
           THEN /\ ultimo' = Op("v1_depositar", "", <<numero_conta>>, valor,
                                "ContaNaoEncontrada", log_transacao(FALSE))
                /\ UNCHANGED v1_contas
           ELSE LET r == V1_depositar_conta(v1_contas[i], valor, hoje)
                IN  /\ v1_contas' = [v1_contas EXCEPT ![i] = r.conta]
                    /\ ultimo' = Op("v1_depositar", "", <<numero_conta>>, valor,
                                    r.msg, log_transacao(r.ok))
        /\ UNCHANGED <<prog, hoje, v2vars, v1_clientes, v1_contador>>

\* ContaBancaria.imprimir_extrato()
V1_imprimir_extrato(numero_conta) ==
    /\ prog = "v1"
    /\ V1_buscar_conta(v1_contas, numero_conta) \in 0..Len(v1_contas)
    /\ UNCHANGED vars

\* ContaBancaria.cadastrar_cliente: the client list after the call
V1_cadastrar(cls, cpf, dados) ==
    IF V1_filtrar_cliente(cpf, cls) # 0 THEN cls
    ELSE Append(cls, [cpf |-> cpf, dados |-> dados])

\* ContaBancaria.cadastrar_cliente()
V1_cadastrar_cliente(cpf, dados) ==
    /\ prog = "v1"
    /\ v1_clientes' = V1_cadastrar(v1_clientes, cpf, dados)
    /\ ultimo' = Op("v1_cadastrar_cliente", cpf, <<>>, 0,
                    IF V1_filtrar_cliente(cpf, v1_clientes) # 0
                    THEN "ClienteJaCadastrado" ELSE "Sucesso", <<>>)
    /\ UNCHANGED <<prog, hoje, v2vars, v1_contas, v1_contador>>

\* ContaBancaria.criar_conta: tipo_conta is "c", "p" or another letter; cpf is typed;
\* when the cpf is unknown, opcao answers "cadastrar um novo cliente?" and
\* cadastrar_cliente() asks for a cpf again (cpf_novo) and for the client's data.
\* Gives the state after the call and the message.
V1_criar(tipo_conta, cpf, opcao, cpf_novo, dados) ==
    LET parado(msg) == [clientes |-> v1_clientes, contas |-> v1_contas,
                        contador |-> v1_contador, msg |-> msg, criada |-> FALSE]
        tipo == IF tipo_conta = "c" THEN "corrente" ELSE "poupanca"
        conhecido == V1_filtrar_cliente(cpf, v1_clientes) # 0
        cls == IF conhecido THEN v1_clientes ELSE V1_cadastrar(v1_clientes, cpf_novo, dados)
        cliente == IF V1_filtrar_cliente(cpf, cls) # 0 THEN cpf ELSE ""
    IN  IF tipo_conta \notin {"c", "p"} THEN parado("TipoInvalido")
        ELSE IF ~conhecido /\ ~opcao THEN parado("CriacaoCancelada")
        ELSE [clientes |-> cls,
              contas |-> Append(v1_contas,
                                [numero_conta |-> v1_contador[tipo], cliente |-> cliente,
                                 tipo_conta |-> tipo, saldo |-> 0, extrato |-> <<>>,
                                 saques_diarios |-> 0, depositos |-> 0, saques |-> 0]),
              contador |-> [v1_contador EXCEPT ![tipo] = @ + 1],
              msg |-> "Sucesso", criada |-> TRUE]

\* ContaBancaria.criar_conta(agencia, tipo_conta)
V1_criar_conta(tipo_conta, cpf, opcao, cpf_novo, dados) ==
    LET r == V1_criar(tipo_conta, cpf, opcao, cpf_novo, dados)
    IN  /\ prog = "v1"
        /\ v1_clientes' = r.clientes
        /\ v1_contas' = r.contas
        /\ v1_contador' = r.contador
        /\ ultimo' = Op("v1_criar_conta", cpf, <<>>, 0, r.msg, <<>>)
        /\ UNCHANGED <<prog, hoje, v2vars>>

\* ContaBancaria.exibir_cliente(): a client without accounts may get a checking account
\* through criar_conta(self.AGENCIA), which asks for a cpf again (cpf_conta)
V1_exibir_cliente(cpf, criar, cpf_conta, opcao, cpf_novo, dados) ==
    LET sem_contas == \A k \in 1..Len(v1_contas) : v1_contas[k].cliente # cpf
        r == V1_criar("c", cpf_conta, opcao, cpf_novo, dados)
    IN  /\ prog = "v1"
        /\ IF V1_filtrar_cliente(cpf, v1_clientes) = 0
           THEN UNCHANGED <<v1vars, ultimo>>
           ELSE IF ~sem_contas
           THEN UNCHANGED <<v1vars, ultimo>>
           ELSE IF ~criar
           THEN UNCHANGED <<v1vars, ultimo>>
           ELSE /\ v1_clientes' = r.clientes
                /\ v1_contas' = r.contas
                /\ v1_contador' = r.contador
                /\ ultimo' = Op("v1_criar_conta", cpf_conta, <<>>, 0, r.msg, <<>>)
        /\ UNCHANGED <<prog, hoje, v2vars>>

\* ContaBancaria.atualizar_cliente(); "" is an answer left blank
V1_atualizar_cliente(cpf, dados) ==
    LET i == V1_filtrar_cliente(cpf, v1_clientes)
    IN  /\ prog = "v1"
        /\ IF i = 0
           THEN /\ ultimo' = Op("v1_atualizar_cliente", cpf, <<>>, 0, "ClienteNaoEncontrado", <<>>)
                /\ UNCHANGED v1_clientes
           ELSE /\ v1_clientes' = IF dados = "" THEN v1_clientes
                                  ELSE [v1_clientes EXCEPT ![i].dados = dados]
                /\ ultimo' = Op("v1_atualizar_cliente", cpf, <<>>, 0, "Sucesso", <<>>)
        /\ UNCHANGED <<prog, hoje, v2vars, v1_contas, v1_contador>>

\* [conta for conta in self.contas if conta["cliente"]["cpf"] != cpf]
RECURSIVE V1_sem_contas_de(_, _)
V1_sem_contas_de(contas, cpf) ==
    IF contas = <<>> THEN <<>>
    ELSE IF Head(contas).cliente # cpf
         THEN <<Head(contas)>> \o V1_sem_contas_de(Tail(contas), cpf)
         ELSE V1_sem_contas_de(Tail(contas), cpf)

\* ContaBancaria.excluir_cliente(): subscripting the None client of an account raises
\* TypeError after the client has left the list, and the run ends there
V1_excluir_cliente(cpf, opcao) ==
    LET i == V1_filtrar_cliente(cpf, v1_clientes)
        orfa == \E k \in 1..Len(v1_contas) : v1_contas[k].cliente = ""
    IN  /\ prog = "v1"
        /\ IF i = 0
           THEN /\ ultimo' = Op("v1_excluir_cliente", cpf, <<>>, 0, "ClienteNaoEncontrado", <<>>)
                /\ UNCHANGED <<prog, v1_clientes, v1_contas>>
           ELSE IF ~opcao
           THEN /\ ultimo' = Op("v1_excluir_cliente", cpf, <<>>, 0, "ExclusaoCancelada", <<>>)
                /\ UNCHANGED <<prog, v1_clientes, v1_contas>>
           ELSE /\ v1_clientes' = RemoverPosicao(v1_clientes, i)
                /\ IF orfa
                   THEN /\ prog' = "v1_TypeError"
                        /\ ultimo' = Op("v1_excluir_cliente", cpf, <<>>, 0, "TypeError", <<>>)
                        /\ UNCHANGED v1_contas
                   ELSE /\ v1_contas' = V1_sem_contas_de(v1_contas, cpf)
                        /\ ultimo' = Op("v1_excluir_cliente", cpf, <<>>, 0, "Sucesso", <<>>)
                        /\ UNCHANGED prog
        /\ UNCHANGED <<hoje, v2vars, v1_contador>>

----------------------------------------------------------------------------
(* The specifications *)

Inicio ==
    /\ hoje = "dia1"
    /\ clientes = <<>>
    /\ contador_contas = [t \in Tipos |-> 0]
    /\ v1_clientes = <<>>
    /\ v1_contas = <<>>
    /\ v1_contador = [t \in Tipos |-> V1Base(t)]
    /\ ultimo = Op("iniciar", "", <<>>, 0, "", <<>>)

\* iniciar() of the second implementation, or ContaBancaria() of the first
Init ==
    /\ prog \in {"v1", "v2"}
    /\ Inicio

\* a whole run stays within MaxTamanho
Limitado == Tamanho <= MaxTamanho /\ V1Tamanho <= MaxTamanho

NextV2 ==
    \/ \E n \in NumerosDigitados, v \in ValoresMenu : sacar(n, v) /\ Limitado'
    \/ \E n \in NumerosDigitados, v \in ValoresMenu : depositar(n, v) /\ Limitado'
    \/ \E n \in NumerosDigitados : imprimir_extrato(n)
    \/ \E id \in Identificadores, t \in Tipos, d \in Digitados :
          criar_nova_conta(id, t, d) /\ Limitado'
    \/ \E tp \in {"fisica", "juridica"}, id \in Identificadores :
          \E d \in DadosCadastro : cadastrar_cliente(tp, id, d) /\ Limitado'
    \/ \E id \in Identificadores : exibir_cliente(id)
    \/ \E id \in Identificadores, d \in DadosNovos : atualizar_cliente(id, d)
    \/ \E id \in Identificadores, c1 \in BOOLEAN, c2 \in BOOLEAN : excluir_cliente(id, c1, c2)
    \/ listar_contas

NextV1 ==
    \/ \E n \in V1NumerosDigitados, v \in ValoresMenu : V1_sacar(n, v) /\ Limitado'
    \/ \E n \in V1NumerosDigitados, v \in ValoresMenu : V1_depositar(n, v) /\ Limitado'
    \/ \E n \in V1NumerosDigitados : V1_imprimir_extrato(n)
    \/ \E id \in Identificadores, d \in DadosCadastro :
          V1_cadastrar_cliente(id, d) /\ Limitado'
    \/ \E t \in {"c", "p", "x"}, id \in Identificadores, o \in BOOLEAN,
          id2 \in Identificadores, d \in DadosCadastro :
             V1_criar_conta(t, id, o, id2, d) /\ Limitado'
    \/ \E id \in Identificadores, c \in BOOLEAN, id1 \in Identificadores, o \in BOOLEAN,
          id2 \in Identificadores, d \in DadosCadastro :
             V1_exibir_cliente(id, c, id1, o, id2, d) /\ Limitado'
    \/ \E id \in Identificadores, d \in DadosNovos : V1_atualizar_cliente(id, d)
    \/ \E id \in Identificadores, o \in BOOLEAN : V1_excluir_cliente(id, o)

\* a whole run of either program, within one day
Next == NextV2 \/ NextV1

Spec == Init /\ [][Next]_vars

\* One account under transactions: client "111" holds one new account, as
\* cadastrar_cliente and criar_conta leave it in the first implementation and as
\* ContaBancaria.criar_nova_conta and Cliente.adicionar_conta leave it in the second
InitConta ==
    /\ prog \in {"v1", "v2"}
    /\ hoje = "dia1"
    /\ ultimo = Op("iniciar", "", <<>>, 0, "", <<>>)
    /\ \E t \in Tipos :
          IF prog = "v2"
          THEN /\ clientes = <<[tipo |-> "fisica", id |-> "111", dados |-> "d1",
                                contas |-> <<NovaConta(t, <<Prefixo(t), 0>>, "111")>>]>>
               /\ contador_contas = [x \in Tipos |-> IF x = t THEN 1 ELSE 0]
               /\ v1_clientes = <<>>
               /\ v1_contas = <<>>
               /\ v1_contador = [x \in Tipos |-> V1Base(x)]
          ELSE /\ clientes = <<>>
               /\ contador_contas = [x \in Tipos |-> 0]
               /\ v1_clientes = <<[cpf |-> "111", dados |-> "d1"]>>
               /\ v1_contas = <<[numero_conta |-> V1Base(t), cliente |-> "111",
                                 tipo_conta |-> t, saldo |-> 0, extrato |-> <<>>,
                                 saques_diarios |-> 0, depositos |-> 0, saques |-> 0]>>
               /\ v1_contador = [x \in Tipos |-> IF x = t THEN V1Base(x) + 1 ELSE V1Base(x)]

\* the account followed alone holds at most MaxRegistros records
LimitadoConta == TotalTransacoes + V1TotalTransacoes <= MaxRegistros

NextConta ==
    \/ \E n \in NumerosDigitados, v \in Valores :
          realizar_transacao_Saque(n, v) /\ LimitadoConta'
    \/ \E n \in NumerosDigitados, v \in Valores :
          realizar_transacao_Deposito(n, v) /\ LimitadoConta'
    \/ \E n \in NumerosDigitados, v \in Valores : sacar(n, v) /\ LimitadoConta'
    \/ \E n \in NumerosDigitados : imprimir_extrato(n)
    \/ \E d \in DadosNovos : atualizar_cliente("111", d)
    \/ \E n \in V1NumerosDigitados, v \in Valores : V1_sacar(n, v) /\ LimitadoConta'
    \/ \E n \in V1NumerosDigitados, v \in Valores : V1_depositar(n, v) /\ LimitadoConta'
    \/ \E n \in V1NumerosDigitados : V1_imprimir_extrato(n)
    \/ \E d \in DadosNovos : V1_atualizar_cliente("111", d)

\* the transactions of one account within one day
SpecConta == InitConta /\ [][NextConta]_vars

NextDias ==
    \/ \E n \in NumerosDigitados, v \in ValoresDias :
          realizar_transacao_Saque(n, v) /\ LimitadoConta'
    \/ \E n \in NumerosDigitados, v \in ValoresDias :
          realizar_transacao_Deposito(n, v) /\ LimitadoConta'
    \/ \E n \in NumerosDigitados : imprimir_extrato(n)
    \/ \E d \in DadosNovos : atualizar_cliente("111", d)
    \/ \E n \in V1NumerosDigitados, v \in ValoresDias : V1_sacar(n, v) /\ LimitadoConta'
    \/ \E n \in V1NumerosDigitados, v \in ValoresDias : V1_depositar(n, v) /\ LimitadoConta'
    \/ \E n \in V1NumerosDigitados : V1_imprimir_extrato(n)
    \/ \E d \in DadosNovos : V1_atualizar_cliente("111", d)
    \/ PassarDia

\* the transactions of one account over two days
SpecDias == InitConta /\ [][NextDias]_vars

\* The opening of accounts in the second implementation: client "111" is registered
\* and holds no account yet
InitAbertura ==
    /\ prog = "v2"
    /\ hoje = "dia1"
    /\ clientes = <<[tipo |-> "fisica", id |-> "111", dados |-> "d1", contas |-> <<>>]>>
    /\ contador_contas = [t \in Tipos |-> 0]
    /\ v1_clientes = <<>>
    /\ v1_contas = <<>>
    /\ v1_contador = [t \in Tipos |-> V1Base(t)]
    /\ ultimo = Op("iniciar", "", <<>>, 0, "", <<>>)

\* the amounts typed at the deposit and withdrawal prompts once accounts are open
ValoresPoupanca == {0, 50, 100}

NextAbertura ==
    \/ \E id \in Identificadores, t \in Tipos, d \in Digitados :
          criar_nova_conta(id, t, d) /\ Limitado'
    \/ \E n \in NumerosDigitados, v \in ValoresPoupanca : depositar(n, v) /\ Limitado'
    \/ \E n \in NumerosDigitados, v \in ValoresPoupanca :
          realizar_transacao_Deposito(n, v) /\ Limitado'
    \/ \E n \in NumerosDigitados, v \in ValoresPoupanca : sacar(n, v) /\ Limitado'
    \/ \E n \in NumerosDigitados : imprimir_extrato(n)

\* accounts opened for one client and used within one day
SpecAbertura == InitAbertura /\ [][NextAbertura]_vars

\* Two accounts side by side: client "111" holds two new accounts, of any two types
InitDuas ==
    /\ prog \in {"v1", "v2"}
    /\ hoje = "dia1"
    /\ ultimo = Op("iniciar", "", <<>>, 0, "", <<>>)
    /\ \E t1 \in Tipos, t2 \in Tipos :
          LET n2(base) == IF t1 = t2 THEN base + 1 ELSE base
              criadas(base) == [x \in Tipos |-> base[x] + (IF x = t1 THEN 1 ELSE 0)
                                                       + (IF x = t2 THEN 1 ELSE 0)]
          IN  IF prog = "v2"
              THEN /\ clientes = <<[tipo |-> "fisica", id |-> "111", dados |-> "d1",
                                    contas |-> <<NovaConta(t1, <<Prefixo(t1), 0>>, "111"),
                                                 NovaConta(t2, <<Prefixo(t2), n2(0)>>, "111")>>]>>
                   /\ contador_contas = criadas([x \in Tipos |-> 0])
                   /\ v1_clientes = <<>>
                   /\ v1_contas = <<>>
                   /\ v1_contador = [x \in Tipos |-> V1Base(x)]
              ELSE /\ clientes = <<>>
                   /\ contador_contas = [x \in Tipos |-> 0]
                   /\ v1_clientes = <<[cpf |-> "111", dados |-> "d1"]>>
                   /\ v1_contas =
                         <<[numero_conta |-> V1Base(t1), cliente |-> "111",
                            tipo_conta |-> t1, saldo |-> 0, extrato |-> <<>>,
                            saques_diarios |-> 0, depositos |-> 0, saques |-> 0],
                           [numero_conta |-> n2(V1Base(t2)), cliente |-> "111",
                            tipo_conta |-> t2, saldo |-> 0, extrato |-> <<>>,
                            saques_diarios |-> 0, depositos |-> 0, saques |-> 0]>>
                   /\ v1_contador = criadas([x \in Tipos |-> V1Base(x)])

\* the amounts typed when two accounts are followed
ValoresDuas == {100, 600}

NextDuas ==
    \/ \E n \in NumerosDigitados, v \in ValoresDuas : sacar(n, v) /\ LimitadoConta'
    \/ \E n \in NumerosDigitados, v \in ValoresDuas : depositar(n, v) /\ LimitadoConta'
    \/ \E n \in NumerosDigitados : imprimir_extrato(n)
    \/ \E n \in V1NumerosDigitados, v \in ValoresDuas : V1_sacar(n, v) /\ LimitadoConta'
    \/ \E n \in V1NumerosDigitados, v \in ValoresDuas : V1_depositar(n, v) /\ LimitadoConta'
    \/ \E n \in V1NumerosDigitados : V1_imprimir_extrato(n)

\* the transactions of two accounts within one day
SpecDuas == InitDuas /\ [][NextDuas]_vars

\* One new checking account, in either implementation
InitCorrente ==
    /\ InitConta
    /\ contador_contas["poupanca"] = 0
    /\ v1_contador["poupanca"] = V1Base("poupanca")

\* the amounts of the scenarios: deposits of 500, withdrawals of 50, 100 and 200
DepositosCenario == {500}
SaquesCenario == {50, 100, 200}

LimitadoCenario == TotalTransacoes + V1TotalTransacoes <= MaxCenario

NextCenario ==
    \/ \E n \in NumerosDigitados, v \in SaquesCenario :
          realizar_transacao_Saque(n, v) /\ LimitadoCenario'
    \/ \E n \in NumerosDigitados, v \in DepositosCenario :
          realizar_transacao_Deposito(n, v) /\ LimitadoCenario'
    \/ \E n \in V1NumerosDigitados, v \in SaquesCenario : V1_sacar(n, v) /\ LimitadoCenario'
    \/ \E n \in V1NumerosDigitados, v \in DepositosCenario :
          V1_depositar(n, v) /\ LimitadoCenario'

\* deposits and withdrawals on one checking account within one day
SpecCenario == InitCorrente /\ [][NextCenario]_vars

\* The two implementations side by side: each holds client "111" with one new
\* checking account, and every request is made to both
InitPar ==
    /\ prog = "v1 e v2"
    /\ hoje = "dia1"
    /\ ultimo = Op("iniciar", "", <<>>, 0, "", <<>>)
    /\ clientes = <<[tipo |-> "fisica", id |-> "111", dados |-> "d1",
                     contas |-> <<NovaConta("corrente", <<Prefixo("corrente"), 0>>, "111")>>]>>
    /\ contador_contas = [x \in Tipos |-> IF x = "corrente" THEN 1 ELSE 0]
    /\ v1_clientes = <<[cpf |-> "111", dados |-> "d1"]>>
    /\ v1_contas = <<[numero_conta |-> V1Base("corrente"), cliente |-> "111",
                      tipo_conta |-> "corrente", saldo |-> 0, extrato |-> <<>>,
                      saques_diarios |-> 0, depositos |-> 0, saques |-> 0]>>
    /\ v1_contador = [x \in Tipos |-> IF x = "corrente" THEN V1Base(x) + 1 ELSE V1Base(x)]

\* sacar(valor=valor) of the first implementation and Saque.registrar(conta, valor) of
\* the second, with the same amount; msg and retorno hold the two answers in that order
Par_sacar(valor) ==
    LET r1 == V1_sacar_conta(v1_contas[1], valor, hoje)
        r2 == Saque_registrar(ContaEm(clientes, <<1, 1>>), valor, hoje)
    IN  /\ prog = "v1 e v2"
        /\ v1_contas' = [v1_contas EXCEPT ![1] = r1.conta]
        /\ clientes' = [clientes EXCEPT ![1].contas[1] = r2.conta]
        /\ ultimo' = Op("sacar", "", <<>>, valor, <<r1.msg, r2.msg>>,
                        <<log_transacao(r1.ok), r2.retorno>>)
        /\ UNCHANGED <<prog, hoje, contador_contas, v1_clientes, v1_contador>>

\* depositar(valor) of the first implementation and Deposito.registrar(conta, valor)
\* of the second, with the same amount
Par_depositar(valor) ==
    LET r1 == V1_depositar_conta(v1_contas[1], valor, hoje)
        r2 == Deposito_registrar(ContaEm(clientes, <<1, 1>>), valor, hoje)
    IN  /\ prog = "v1 e v2"
        /\ v1_contas' = [v1_contas EXCEPT ![1] = r1.conta]
        /\ clientes' = [clientes EXCEPT ![1].contas[1] = r2.conta]
        /\ ultimo' = Op("depositar", "", <<>>, valor, <<r1.msg, r2.msg>>,
                        <<log_transacao(r1.ok), r2.retorno>>)
        /\ UNCHANGED <<prog, hoje, contador_contas, v1_clientes, v1_contador>>

\* each of the two accounts holds at most MaxRegistros records
LimitadoPar == TotalTransacoes <= MaxRegistros /\ V1TotalTransacoes <= MaxRegistros

NextPar ==
    \/ \E v \in Valores : Par_sacar(v) /\ LimitadoPar'
    \/ \E v \in Valores : Par_depositar(v) /\ LimitadoPar'

\* the same requests made to a checking account of each implementation
SpecPar == InitPar /\ [][NextPar]_vars

\* One sequence of registrar calls run on two accounts: client "111" holds two new
\* accounts of one type, the first and the second of the client's list
InitReplica ==
    /\ prog = "v2"
    /\ hoje = "dia1"
    /\ ultimo = Op("iniciar", "", <<>>, 0, "", <<>>)
    /\ \E t \in Tipos :
          /\ clientes = <<[tipo |-> "fisica", id |-> "111", dados |-> "d1",
                           contas |-> <<NovaConta(t, <<Prefixo(t), 0>>, "111"),
                                        NovaConta(t, <<Prefixo(t), 1>>, "111")>>]>>
          /\ contador_contas = [x \in Tipos |-> IF x = t THEN 2 ELSE 0]
    /\ v1_clientes = <<>>
    /\ v1_contas = <<>>
    /\ v1_contador = [x \in Tipos |-> V1Base(x)]

\* Saque.registrar(conta, valor) on the first account today, then the same call on
\* the second account on the day `data`; msg holds the two outcomes in that order
Replica_Saque(valor, data) ==
    LET ra   == Saque_registrar(ContaEm(clientes, <<1, 1>>), valor, hoje)
        meio == [clientes EXCEPT ![1].contas[1] = ra.conta]
        rb   == Saque_registrar(ContaEm(meio, <<1, 2>>), valor, data)
    IN  /\ prog = "v2"
        /\ clientes' = [meio EXCEPT ![1].contas[2] = rb.conta]
        /\ ultimo' = Op("Saque.registrar", "", <<>>, valor, <<ra.msg, rb.msg>>,
                        <<ra.retorno, rb.retorno>>)
        /\ UNCHANGED <<prog, hoje, contador_contas, v1vars>>

\* Deposito.registrar(conta, valor) on the first account today, then the same call on
\* the second account on the day `data`
Replica_Deposito(valor, data) ==
    LET ra   == Deposito_registrar(ContaEm(clientes, <<1, 1>>), valor, hoje)
        meio == [clientes EXCEPT ![1].contas[1] = ra.conta]
        rb   == Deposito_registrar(ContaEm(meio, <<1, 2>>), valor, data)
    IN  /\ prog = "v2"
        /\ clientes' = [meio EXCEPT ![1].contas[2] = rb.conta]
        /\ ultimo' = Op("Deposito.registrar", "", <<>>, valor, <<ra.msg, rb.msg>>,
                        <<ra.retorno, rb.retorno>>)
        /\ UNCHANGED <<prog, hoje, contador_contas, v1vars>>

\* the account numbers typed for the accounts beside the two
OutrosNumeros ==
    {n \in NumerosDigitados :
        /\ n # ContaEm(clientes, <<1, 1>>).numero
        /\ n # ContaEm(clientes, <<1, 2>>).numero}

\* the second of the two accounts holds fewer than MaxRegistros records; one more
\* account is opened beside them and holds at most one
LimitadoReplica ==
    /\ Len(ContaEm(clientes, <<1, 2>>).extrato) < MaxRegistros
    /\ Len(clientes[1].contas) <= 3
    /\ \A j \in 3..Len(clientes[1].contas) : Len(clientes[1].contas[j].extrato) <= 1

NextReplica ==
    \/ \E v \in ValoresDias, d \in {"dia2"} : Replica_Saque(v, d) /\ LimitadoReplica'
    \/ \E v \in ValoresDias, d \in {"dia2"} : Replica_Deposito(v, d) /\ LimitadoReplica'
    \/ \E t \in Tipos, d \in Digitados : criar_nova_conta("111", t, d) /\ LimitadoReplica'
    \/ \E n \in OutrosNumeros, v \in {100} : depositar(n, v) /\ LimitadoReplica'
    \/ \E n \in OutrosNumeros, v \in {100} : sacar(n, v) /\ LimitadoReplica'
    \/ PassarDia

\* one sequence of calls on two accounts, other accounts opened and used in between
SpecReplica == InitReplica /\ [][NextReplica]_vars

----------------------------------------------------------------------------
(* The properties *)

\* the signed sum of the records of a ledger, from zero: a deposit adds its amount,
\* a withdrawal subtracts it
RECURSIVE SomaExtrato(_)
SomaExtrato(extrato) ==
    IF extrato = <<>> THEN 0
    ELSE (IF Head(extrato).tipo = "Deposito" THEN Head(extrato).valor
          ELSE 0 - Head(extrato).valor) + SomaExtrato(Tail(extrato))

\* the account dicts of the first implementation
V1Contas == {v1_contas[k] : k \in 1..Len(v1_contas)}

EhPrefixo(s, t) == Len(s) <= Len(t) /\ SubSeq(t, 1, Len(s)) = s

Ultima(extrato) == extrato[Len(extrato)]

\* the requests that ask for a withdrawal, and those that call a registrar directly
PedidosDeSaque == {"Saque.registrar", "sacar", "v1_sacar"}
PedidosDeRegistro == {"Saque.registrar", "Deposito.registrar"}

\* C1: an account that starts with balance 0 and an empty ledger has, after any
\* sequence of Saque.registrar and Deposito.registrar calls with any amounts, a balance
\* equal to the sum of its Deposito records minus the sum of its Saque records.
C1_SaldoAposRegistros ==
    prog = "v2" => \A c \in Contas : c.saldo = SomaExtrato(c.extrato)

C1_Witness ==
    /\ prog = "v2"
    /\ ultimo.op = "Deposito.registrar"
    /\ ultimo.retorno # <<>>
    /\ \E c \in Contas :
          /\ ContarTipo(c.extrato, "Saque") >= 1
          /\ ContarTipo(c.extrato, "Deposito") >= 2
          /\ c.saldo > 0

\* C2: in every reachable state of the program, also right after an account has been
\* opened through criar_nova_conta, the balance of each account is the signed sum of
\* the records of its ledger.
C2_SaldoSomaExtrato ==
    /\ \A c \in Contas : c.saldo = SomaExtrato(c.extrato)
    /\ \A c \in V1Contas : c.saldo = SomaExtrato(c.extrato)

C5_RejeicaoNaoAltera ==
    [][ultimo' # ultimo /\ ultimo'.op \in PedidosDeRegistro /\ ultimo'.retorno = <<>> =>
          \A c \in Contas : c.numero = ultimo'.conta =>
             \E d \in Contas' : /\ d.numero = c.numero
                                /\ d.saldo = c.saldo
                                /\ d.extrato = c.extrato]_vars

C5_Witness ==
    /\ ultimo.op = "Saque.registrar"
    /\ ultimo.retorno = <<>>
    /\ ultimo.msg = "SaldoInsuficiente"
    /\ \E c \in Contas : c.numero = ultimo.conta /\ Len(c.extrato) >= 2 /\ c.saldo > 0

\* C6: the ledger of an account holds as many records as registrar calls have
\* succeeded on the account since it was created.
C6_ExtratoContaRegistros ==
    prog = "v2" => \A c \in Contas : Len(c.extrato) = c.registros

C6_Witness ==
    /\ prog = "v2"
    /\ ultimo.op = "sacar"
    /\ ultimo.retorno # <<>>
    /\ \E c \in Contas : c.tipo = "poupanca" /\ c.registros = 2 /\ c.saldo = 100

\* C7: a registrar call that succeeds returns a transaction of the kind and the amount
\* requested, appends one record of that kind and amount at the end of the ledger, and
\* changes the balance by the amount: down for Saque, up for Deposito.
C7_RegistroComSucesso ==
    [][(ultimo' # ultimo \/ clientes' # clientes)
       /\ ultimo'.op \in PedidosDeRegistro /\ ultimo'.retorno # <<>> =>
          LET tipo == IF ultimo'.op = "Saque.registrar" THEN "Saque" ELSE "Deposito"
              valor == ultimo'.valor
              sinal == IF tipo = "Saque" THEN 0 - 1 ELSE 1
          IN  /\ ultimo'.retorno = <<[tipo |-> tipo, valor |-> valor]>>
              /\ \A c \in Contas : c.numero = ultimo'.conta =>
                    \E d \in Contas' :
                       /\ d.numero = c.numero
                       /\ Len(d.extrato) = Len(c.extrato) + 1
                       /\ SubSeq(d.extrato, 1, Len(c.extrato)) = c.extrato
                       /\ Ultima(d.extrato).tipo = tipo
                       /\ Ultima(d.extrato).valor = valor
                       /\ d.saldo = c.saldo + sinal * valor]_vars

C7_Witness ==
    /\ ultimo.op = "Saque.registrar"
    /\ ultimo.retorno = <<[tipo |-> "Saque", valor |-> 100]>>
    /\ \E c \in Contas :
          /\ c.numero = ultimo.conta
          /\ Len(c.extrato) >= 3
          /\ Ultima(c.extrato).tipo = "Saque"
          /\ c.extrato[1].valor = 600

\* C8: the ledger of an account only grows at its end: across every step, the ledger
\* of an account that exists before and after the step is a prefix of its ledger after.
C8_ExtratoSoCresce ==
    [][/\ \A c \in Contas, d \in Contas' :
             d.numero = c.numero => EhPrefixo(c.extrato, d.extrato)
       /\ \A c \in V1Contas, d \in V1Contas' :
             d.numero_conta = c.numero_conta => EhPrefixo(c.extrato, d.extrato)]_vars

C8_Witness ==
    /\ prog = "v2"
    /\ ultimo.op = "sacar"
    /\ ultimo.msg = "Sucesso"
    /\ \E c \in Contas : Len(c.extrato) >= 3 /\ c.extrato[1].tipo = "Deposito"

\* a checking account whose count of recorded withdrawals has reached the cap
NoLimiteDeSaques(c) == c.tipo = "corrente" /\ ContarTipo(c.extrato, "Saque") >= LimiteSaque
V1NoLimiteDeSaques(c) == c.tipo_conta = "corrente" /\ c.saques_diarios >= V1LimiteSaques

\* C9, as stated: on a checking account at the cap every withdrawal attempt is rejected
\* with the cap-reached reason, whatever the amount and the balance.
C9_SempreLimiteDeSaques ==
    [][ultimo' # ultimo /\ ultimo'.op \in PedidosDeSaque =>
          /\ \A c \in Contas : c.numero = ultimo'.conta /\ NoLimiteDeSaques(c) =>
                ultimo'.msg = "SaquesExcedidos"
          /\ \A c \in V1Contas : <<c.numero_conta>> = ultimo'.conta /\ V1NoLimiteDeSaques(c) =>
                ultimo'.msg = "SaquesExcedidos"]_vars

\* C9, amended: on a checking account at the cap every withdrawal attempt is rejected
\* and changes nothing; the reason is the cap unless an earlier check rejects: the
\* ceiling in ContaCorrente.sacar; the amount, the balance and then the ceiling in the
\* menu's sacar and in the first implementation.
C9_RejeitadoNoLimiteDeSaques ==
    [][ultimo' # ultimo /\ ultimo'.op \in PedidosDeSaque =>
          LET valor == ultimo'.valor
              motivo(saldo) ==
                  IF ultimo'.op = "Saque.registrar"
                  THEN (IF valor > Limite THEN "LimiteExcedido" ELSE "SaquesExcedidos")
                  ELSE IF valor <= 0 THEN "ValorInvalido"
                  ELSE IF valor > saldo THEN "SaldoInsuficiente"
                  ELSE IF valor > Limite THEN "LimiteExcedido"
                  ELSE "SaquesExcedidos"
          IN  /\ \A c \in Contas : c.numero = ultimo'.conta /\ NoLimiteDeSaques(c) =>
                    /\ ultimo'.msg = motivo(c.saldo)
                    /\ ultimo'.retorno = <<>>
                    /\ clientes' = clientes
              /\ \A c \in V1Contas :
                    <<c.numero_conta>> = ultimo'.conta /\ V1NoLimiteDeSaques(c) =>
                       /\ ultimo'.msg = motivo(c.saldo)
                       /\ v1_contas' = v1_contas]_vars

C9_Witness ==
    /\ ultimo.op = "sacar"
    /\ ultimo.msg = "SaquesExcedidos"
    /\ ultimo.valor = 100
    /\ \E c \in Contas : c.numero = ultimo.conta /\ NoLimiteDeSaques(c) /\ c.saldo >= 100

\* C10, as stated: on a checking account a withdrawal above the ceiling is rejected
\* with the limit-exceeded reason in every state, balance and ledger unchanged.
C10_SempreLimiteExcedido ==
    [][ultimo' # ultimo /\ ultimo'.op \in PedidosDeSaque /\ ultimo'.valor > Limite =>
          /\ \A c \in Contas : c.numero = ultimo'.conta /\ c.tipo = "corrente" =>
                ultimo'.msg = "LimiteExcedido" /\ clientes' = clientes
          /\ \A c \in V1Contas :
                <<c.numero_conta>> = ultimo'.conta /\ c.tipo_conta = "corrente" =>
                   ultimo'.msg = "LimiteExcedido" /\ v1_contas' = v1_contas]_vars

\* C10, amended: on a checking account a withdrawal above the ceiling is rejected in
\* every state, balance and ledger unchanged; the reason is the ceiling whenever the
\* request reaches ContaCorrente.sacar, as every Saque.registrar call does; the menu's
\* sacar and the first implementation look at the balance first, and reject an amount
\* above the balance as insufficient balance.
C10_AcimaDoLimiteRejeitado ==
    [][ultimo' # ultimo /\ ultimo'.op \in PedidosDeSaque /\ ultimo'.valor > Limite =>
          LET motivo(saldo) ==
                  IF ultimo'.op = "Saque.registrar" THEN "LimiteExcedido"
                  ELSE IF ultimo'.valor > saldo THEN "SaldoInsuficiente"
                  ELSE "LimiteExcedido"
          IN  /\ \A c \in Contas : c.numero = ultimo'.conta /\ c.tipo = "corrente" =>
                    /\ ultimo'.msg = motivo(c.saldo)
                    /\ ultimo'.retorno = <<>>
                    /\ clientes' = clientes
              /\ \A c \in V1Contas :
                    <<c.numero_conta>> = ultimo'.conta /\ c.tipo_conta = "corrente" =>
                       /\ ultimo'.msg = motivo(c.saldo)
                       /\ v1_contas' = v1_contas]_vars

C10_Witness ==
    /\ ultimo.op = "Saque.registrar"
    /\ ultimo.msg = "LimiteExcedido"
    /\ ultimo.valor = 600
    /\ \E c \in Contas :
          /\ c.numero = ultimo.conta
          /\ c.tipo = "corrente"
          /\ c.saldo = 1000

\* the requests that ask for a deposit
PedidosDeDeposito == {"Deposito.registrar", "depositar", "v1_depositar"}

\* C11, as stated: a withdrawal of more than the balance is rejected with the
\* insufficient-balance reason on every account and in every state, balance and
\* ledger unchanged.
C11_SempreSaldoInsuficiente ==
    [][ultimo' # ultimo /\ ultimo'.op \in PedidosDeSaque =>
          /\ \A c \in Contas : c.numero = ultimo'.conta /\ ultimo'.valor > c.saldo =>
                ultimo'.msg = "SaldoInsuficiente" /\ clientes' = clientes
          /\ \A c \in V1Contas :
                <<c.numero_conta>> = ultimo'.conta /\ ultimo'.valor > c.saldo =>
                   ultimo'.msg = "SaldoInsuficiente" /\ v1_contas' = v1_contas]_vars

\* C11, amended: a withdrawal of more than the balance is rejected on every account and
\* in every state, balance and ledger unchanged; the reason is insufficient balance,
\* except that ContaCorrente.sacar, which every Saque.registrar call on a checking
\* account reaches, rejects an amount above the ceiling as limit exceeded and, at the
\* cap of withdrawals, any other amount as cap reached, before it looks at the balance.
C11_AcimaDoSaldoRejeitado ==
    [][ultimo' # ultimo /\ ultimo'.op \in PedidosDeSaque =>
          LET motivo(c) ==
                  IF ultimo'.op = "Saque.registrar" /\ c.tipo = "corrente"
                  THEN (IF ultimo'.valor > Limite THEN "LimiteExcedido"
                        ELSE IF NoLimiteDeSaques(c) THEN "SaquesExcedidos"
                        ELSE "SaldoInsuficiente")
                  ELSE "SaldoInsuficiente"
          IN  /\ \A c \in Contas : c.numero = ultimo'.conta /\ ultimo'.valor > c.saldo =>
                    /\ ultimo'.msg = motivo(c)
                    /\ ultimo'.retorno = <<>>
                    /\ clientes' = clientes
              /\ \A c \in V1Contas :
                    <<c.numero_conta>> = ultimo'.conta /\ ultimo'.valor > c.saldo =>
                       /\ ultimo'.msg = "SaldoInsuficiente"
                       /\ v1_contas' = v1_contas]_vars

C11_Witness ==
    /\ ultimo.op = "Saque.registrar"
    /\ ultimo.msg = "SaldoInsuficiente"
    /\ ultimo.valor = 100
    /\ \E c \in Contas :
          /\ c.numero = ultimo.conta
          /\ c.tipo = "corrente"
          /\ c.saldo = 0
          /\ ContarTipo(c.extrato, "Saque") = 1

\* C12, as stated: a withdrawal of an amount that is zero or negative fails with the
\* invalid-amount reason on every account and in every state, balance and ledger
\* unchanged.
C12_SempreValorInvalido ==
    [][ultimo' # ultimo /\ ultimo'.op \in PedidosDeSaque /\ ultimo'.valor <= 0 =>
          /\ \A c \in Contas : c.numero = ultimo'.conta =>
                ultimo'.msg = "ValorInvalido" /\ clientes' = clientes
          /\ \A c \in V1Contas : <<c.numero_conta>> = ultimo'.conta =>
                ultimo'.msg = "ValorInvalido" /\ v1_contas' = v1_contas]_vars

\* C12, amended: a withdrawal of an amount that is zero or negative is rejected on
\* every account and in every state, balance and ledger unchanged; the reason is the
\* invalid amount, except that ContaCorrente.sacar, which every Saque.registrar call on
\* a checking account reaches, gives the cap-reached reason once the account is at its
\* cap of withdrawals.
C12_NaoPositivoRejeitado ==
    [][ultimo' # ultimo /\ ultimo'.op \in PedidosDeSaque /\ ultimo'.valor <= 0 =>
          /\ \A c \in Contas : c.numero = ultimo'.conta =>
                /\ ultimo'.msg = IF ultimo'.op = "Saque.registrar" /\ NoLimiteDeSaques(c)
                                 THEN "SaquesExcedidos" ELSE "ValorInvalido"
                /\ ultimo'.retorno = <<>>
                /\ clientes' = clientes
          /\ \A c \in V1Contas : <<c.numero_conta>> = ultimo'.conta =>
                /\ ultimo'.msg = "ValorInvalido"
                /\ v1_contas' = v1_contas]_vars

C12_Witness ==
    /\ ultimo.op = "Saque.registrar"
    /\ ultimo.msg = "ValorInvalido"
    /\ ultimo.valor = -100
    /\ \E c \in Contas : c.numero = ultimo.conta /\ c.saldo = 500 /\ Len(c.extrato) = 2

\* C13: a deposit of an amount that is zero or negative is rejected with the
\* invalid-amount reason on every account of either implementation and of either type,
\* and leaves the balance and the ledger as they were.
C13_DepositoNaoPositivo ==
    [][ultimo' # ultimo /\ ultimo'.op \in PedidosDeDeposito /\ ultimo'.valor <= 0 =>
          /\ \A c \in Contas : c.numero = ultimo'.conta =>
                /\ ultimo'.msg = "ValorInvalido"
                /\ ultimo'.retorno = <<>>
                /\ clientes' = clientes
          /\ \A c \in V1Contas : <<c.numero_conta>> = ultimo'.conta =>
                /\ ultimo'.msg = "ValorInvalido"
                /\ v1_contas' = v1_contas]_vars

C13_Witness ==
    /\ ultimo.op = "Deposito.registrar"
    /\ ultimo.msg = "ValorInvalido"
    /\ ultimo.valor = 0
    /\ \E c \in Contas :
          /\ c.numero = ultimo.conta
          /\ c.saldo = 100
          /\ Len(c.extrato) = 1

\* the client with the identifier is registered and holds at least one account
TemContas(id) ==
    \E i \in 1..Len(clientes) : clientes[i].id = id /\ clientes[i].contas # <<>>
V1TemContas(cpf) ==
    /\ V1_filtrar_cliente(cpf, v1_clientes) # 0
    /\ \E k \in 1..Len(v1_contas) : v1_contas[k].cliente = cpf

\* C14: removing a client that owns accounts is atomic: whatever is answered to the
\* confirmation prompts, when excluir_cliente is over either nothing has changed, or
\* the client and all its accounts are gone; never the accounts without the client,
\* never the client without the accounts.
C14_ExclusaoAtomica ==
    [][/\ \A id \in Identificadores, c1 \in BOOLEAN, c2 \in BOOLEAN :
             TemContas(id) /\ excluir_cliente(id, c1, c2) =>
                \/ clientes' = clientes
                \/ filtrar_cliente(id, clientes') = 0
       /\ \A id \in Identificadores, o \in BOOLEAN :
             V1TemContas(id) /\ V1_excluir_cliente(id, o) =>
                \/ v1_clientes' = v1_clientes /\ v1_contas' = v1_contas
                \/ /\ V1_filtrar_cliente(id, v1_clientes') = 0
                   /\ \A k \in 1..Len(v1_contas') : v1_contas'[k].cliente # id]_vars

\* C15: removing a client that owns an account, without confirming that the accounts
\* go too, is refused: the client is still found by its identifier, its accounts are
\* there with their balances and ledgers, and nothing else in the bank has changed.
C15_SemConfirmacaoRecusa ==
    [][/\ \A id \in Identificadores, c2 \in BOOLEAN :
             TemContas(id) /\ excluir_cliente(id, FALSE, c2) =>
                /\ ultimo'.msg = "ContasAtivas"
                /\ filtrar_cliente(id, clientes') = filtrar_cliente(id, clientes)
                /\ clientes' = clientes
                /\ contador_contas' = contador_contas
       /\ \A id \in Identificadores :
             V1TemContas(id) /\ V1_excluir_cliente(id, FALSE) =>
                /\ v1_clientes' = v1_clientes
                /\ v1_contas' = v1_contas
                /\ v1_contador' = v1_contador]_vars

C15_Witness ==
    /\ ultimo.op = "excluir_cliente"
    /\ ultimo.msg = "ContasAtivas"
    /\ \E i \in 1..Len(clientes) :
          /\ clientes[i].id = ultimo.cliente
          /\ Len(clientes[i].contas) = 2
          /\ clientes[i].contas[2].saldo = 100

\* the account numbers the accounts of a client carry
NumerosDe(id) ==
    UNION {{clientes[i].contas[j].numero : j \in 1..Len(clientes[i].contas)} :
              i \in {k \in 1..Len(clientes) : clientes[k].id = id}}
V1NumerosDe(cpf) ==
    {v1_contas[k].numero_conta : k \in {m \in 1..Len(v1_contas) : v1_contas[m].cliente = cpf}}

\* the account numbers handed out so far
NumerosAtribuidos ==
    {n \in Numeros : \E t \in Tipos : n[1] = Prefixo(t) /\ n[2] < contador_contas[t]}
V1NumerosAtribuidos ==
    {n \in V1Numeros : \E t \in Tipos : V1Base(t) <= n /\ n < v1_contador[t]}

\* C16, second implementation: once a client holding accounts is removed with both
\* confirmations, the client is not found and none of its accounts is listed or found by
\* number; a client not found stays so until cadastrar_cliente registers the
\* identifier, and an account number that is no longer found is never found again.
C16_RemovidoNaoVolta_V2 ==
    /\ \A id \in Identificadores :
          TemContas(id) /\ excluir_cliente(id, TRUE, TRUE) =>
             /\ filtrar_cliente(id, clientes') = 0
             /\ \A n \in NumerosDe(id) :
                   buscar_conta(clientes', Banco_listar_contas(clientes'), n) = <<>>
    /\ \A id \in Identificadores :
          filtrar_cliente(id, clientes) = 0 /\ filtrar_cliente(id, clientes') # 0 =>
             \E tp \in {"fisica", "juridica"}, d \in DadosCadastro : cadastrar_cliente(tp, id, d)
    /\ \A n \in NumerosAtribuidos :
          buscar_conta(clientes, Banco_listar_contas(clientes), n) = <<>> =>
             buscar_conta(clientes', Banco_listar_contas(clientes'), n) = <<>>

\* C16, first implementation: the same of excluir_cliente answered 's', of
\* cadastrar_cliente (also when criar_conta calls it) and of the numbers of self.contas.
C16_RemovidoNaoVolta_V1 ==
    /\ \A id \in Identificadores :
          V1TemContas(id) /\ V1_excluir_cliente(id, TRUE) =>
             /\ V1_filtrar_cliente(id, v1_clientes') = 0
             /\ \A n \in V1NumerosDe(id) : V1_buscar_conta(v1_contas', n) = 0
    /\ \A id \in Identificadores :
          V1_filtrar_cliente(id, v1_clientes) = 0 /\ V1_filtrar_cliente(id, v1_clientes') # 0 =>
             ultimo'.op \in {"v1_cadastrar_cliente", "v1_criar_conta"}
    /\ \A n \in V1NumerosAtribuidos :
          V1_buscar_conta(v1_contas, n) = 0 => V1_buscar_conta(v1_contas', n) = 0

\* C16: after a client holding accounts has been removed with confirmation, looking the
\* client up gives nothing and none of its former accounts is listed or found by
\* number; this stays so until a client with the identifier is registered again, and
\* the removed accounts do not come back even then.
C16_RemovidoNaoVolta ==
    [][C16_RemovidoNaoVolta_V2 /\ C16_RemovidoNaoVolta_V1]_vars

\* no two clients of the list carry the same identifier
IdentificadoresUnicos(cls) ==
    \A i \in 1..Len(cls), k \in 1..Len(cls) : cls[i].id = cls[k].id => i = k
V1CpfsUnicos(cls) ==
    \A i \in 1..Len(cls), k \in 1..Len(cls) : cls[i].cpf = cls[k].cpf => i = k

ContasTemDono ==
    /\ \A i \in 1..Len(clientes) : \A j \in 1..Len(clientes[i].contas) :
          clientes[i].contas[j].cliente = clientes[i].id
    /\ \A k \in 1..Len(v1_contas) :
          /\ v1_contas[k].cliente # ""
          /\ V1_filtrar_cliente(v1_contas[k].cliente, v1_clientes) # 0

\* C18: only registered clients have accounts: every account has one owner, the owner
\* is a client of the bank and never changes; opening an account for an identifier
\* that is not registered creates no account and uses up no account number (the first
\* implementation may register the identifier within the same call).
C18_SoClientesTemContas ==
    [][/\ ContasTemDono'
       /\ \A c \in Contas, d \in Contas' : d.numero = c.numero => d.cliente = c.cliente
       /\ \A c \in V1Contas, d \in V1Contas' :
             d.numero_conta = c.numero_conta => d.cliente = c.cliente
       /\ \A id \in Identificadores, t \in Tipos, v \in Digitados :
             filtrar_cliente(id, clientes) = 0 /\ criar_nova_conta(id, t, v) =>
                /\ ultimo'.msg = "ClienteNaoEncontrado"
                /\ clientes' = clientes
                /\ contador_contas' = contador_contas
       /\ \A t \in {"c", "p", "x"}, id \in Identificadores, o \in BOOLEAN,
             id2 \in Identificadores, d \in DadosCadastro :
                V1_filtrar_cliente(id, v1_clientes) = 0 /\ V1_criar_conta(t, id, o, id2, d) =>
                   \/ v1_contas' = v1_contas /\ v1_contador' = v1_contador
                   \/ V1_filtrar_cliente(id, v1_clientes') # 0]_vars

\* the numbers of the accounts in the bank are pairwise distinct
NumerosDistintos ==
    /\ \A k \in 1..Len(Banco_listar_contas(clientes)), m \in 1..Len(Banco_listar_contas(clientes)) :
          ContaEm(clientes, Banco_listar_contas(clientes)[k]).numero
             = ContaEm(clientes, Banco_listar_contas(clientes)[m]).numero => k = m
    /\ \A k \in 1..Len(v1_contas), m \in 1..Len(v1_contas) :
          v1_contas[k].numero_conta = v1_contas[m].numero_conta => k = m

\* C19: account numbers come from a counter per account type that only goes up: an
\* account that appears in a step carries the number the counter of its type stood at
\* and the counter is one higher afterwards, so within a type the numbers grow in the
\* order of creation, are pairwise distinct, and the number of a removed account is
\* not handed out again.
C19_NumerosCrescentes ==
    [][/\ \A t \in Tipos : /\ contador_contas'[t] >= contador_contas[t]
                           /\ v1_contador'[t] >= v1_contador[t]
       /\ \A d \in Contas' :
             /\ d.numero[1] = Prefixo(d.tipo)
             /\ d.numero[2] < contador_contas'[d.tipo]
             /\ (\A c \in Contas : c.numero # d.numero) =>
                   /\ d.numero[2] = contador_contas[d.tipo]
                   /\ contador_contas'[d.tipo] = contador_contas[d.tipo] + 1
       /\ \A d \in V1Contas' :
             /\ V1Base(d.tipo_conta) <= d.numero_conta
             /\ d.numero_conta < v1_contador'[d.tipo_conta]
             /\ (\A c \in V1Contas : c.numero_conta # d.numero_conta) =>
                   /\ d.numero_conta = v1_contador[d.tipo_conta]
                   /\ v1_contador'[d.tipo_conta] = v1_contador[d.tipo_conta] + 1
       /\ NumerosDistintos']_vars

C19_Witness ==
    /\ prog = "v2"
    /\ ultimo.op = "criar_nova_conta"
    /\ ultimo.msg = "Sucesso"
    /\ ultimo.conta = <<Prefixo("corrente"), 1>>
    /\ contador_contas["corrente"] = 2
    /\ Len(Banco_listar_contas(clientes)) = 1

\* the places <<client, account>> of the accounts the registered clients hold
LugaresDosClientes ==
    UNION {{<<i, j>> : j \in 1..Len(clientes[i].contas)} : i \in 1..Len(clientes)}

\* C20: the accounts Banco.listar_contas gives, the ones buscar_conta finds by number
\* for sacar, depositar and imprimir_extrato, are exactly the accounts in the lists of
\* the registered clients, each one once.
C20_ContasPelosClientes ==
    prog = "v2" =>
       LET lista == Banco_listar_contas(clientes)
       IN  /\ {lista[k] : k \in 1..Len(lista)} = LugaresDosClientes
           /\ Len(lista) = Cardinality(LugaresDosClientes)
           /\ \A k \in 1..Len(lista), m \in 1..Len(lista) :
                 ContaEm(clientes, lista[k]).numero = ContaEm(clientes, lista[m]).numero => k = m
           /\ \A n \in Numeros :
                 buscar_conta(clientes, lista, n) # <<>> <=>
                    \E l \in LugaresDosClientes : ContaEm(clientes, l).numero = n

C20_Witness ==
    /\ prog = "v2"
    /\ Len(clientes) = 2
    /\ clientes[1].contas = <<>>
    /\ Len(clientes[2].contas) = 1
    /\ ultimo.op = "depositar"
    /\ ultimo.msg = "Sucesso"
    /\ ultimo.conta = clientes[2].contas[1].numero

\* C21: a savings account becomes usable only after its minimum opening deposit: in
\* the account-opening workflow it is attached to its client only after one deposit of
\* at least the minimum (100) has succeeded on it, an opening amount below the minimum
\* neither changes the balance nor attaches the account, and after opening every
\* deposit with amount > 0 is accepted with no minimum.
C21_PoupancaAbertaComMinimo ==
    [][/\ \A c \in Contas' :
             c.tipo = "poupanca" => c.saldo - SomaExtrato(c.extrato) >= DepositoMinimo
       /\ \A id \in Identificadores, d \in Digitados :
             filtrar_cliente(id, clientes) # 0 /\ criar_nova_conta(id, "poupanca", d) =>
                LET i    == filtrar_cliente(id, clientes)
                    nova == Ultima(clientes'[i].contas)
                IN  /\ d # <<>>
                    /\ \A k \in 1..(Len(d) - 1) : d[k] < DepositoMinimo
                    /\ Ultima(d) >= DepositoMinimo
                    /\ Len(clientes'[i].contas) = Len(clientes[i].contas) + 1
                    /\ nova.numero = <<Prefixo("poupanca"), contador_contas["poupanca"]>>
                    /\ nova.saldo = Ultima(d)
                    /\ \A c \in Contas : c.numero # nova.numero
       /\ \A n \in NumerosDigitados, v \in ValoresPoupanca :
             /\ v > 0
             /\ \E c \in Contas : c.numero = n /\ c.tipo = "poupanca"
             /\ depositar(n, v) \/ realizar_transacao_Deposito(n, v)
             => /\ ultimo'.msg = "Sucesso"
                /\ \A c \in Contas, e \in Contas' :
                      c.numero = n /\ e.numero = n => e.saldo = c.saldo + v]_vars

\* a savings account opened with 100 has taken a later deposit of 50, below the minimum
C21_Witness ==
    /\ ultimo.op \in {"depositar", "Deposito.registrar"}
    /\ ultimo.valor = 50
    /\ ultimo.msg = "Sucesso"
    /\ \E c \in Contas :
          /\ c.tipo = "poupanca"
          /\ c.numero = ultimo.conta
          /\ c.saldo = 150
          /\ Len(c.extrato) = 1
          /\ c.extrato[1].tipo = "Deposito"
          /\ c.extrato[1].valor = 50

\* C22: the ledger is complete and its count query is exact: for every account, in
\* every reachable state, the number of Deposito records in its ledger
\* (numero_deposito) equals the number of deposits that have succeeded on the account
\* since its creation, and the number of Saque records equals the number of
\* withdrawals that have succeeded, so the statement lists every money movement.
C22_ExtratoCompleto ==
    /\ \A c \in Contas :
          /\ numero_deposito(c) = c.depositos
          /\ ContarTipo(c.extrato, "Saque") = c.saques
    /\ \A c \in V1Contas :
          /\ ContarTipo(c.extrato, "Deposito") = c.depositos
          /\ ContarTipo(c.extrato, "Saque") = c.saques

\* C24: sacar and depositar of the first implementation, as decorated with
\* @log_transacao, return True when the operation was carried out and False when it
\* was rejected: the decorated function returns the value the wrapped function
\* returned (<<TRUE>> and <<FALSE>> here, <<>> being None).
C24_RetornoDoDecorado ==
    [][ultimo' # ultimo /\ ultimo'.op \in {"v1_sacar", "v1_depositar"} =>
          ultimo'.retorno = <<ultimo'.msg = "Sucesso">>]_vars

\* C28: a savings account of the second implementation has neither a per-withdrawal
\* ceiling nor a withdrawal-count cap: every Saque.registrar call on it with
\* 0 < amount <= balance succeeds, debits the amount and adds one Saque record.
C28_PoupancaSemLimites ==
    [][\A n \in NumerosDigitados, v \in Valores :
          \A c \in Contas :
             /\ c.numero = n
             /\ c.tipo = "poupanca"
             /\ 0 < v /\ v <= c.saldo
             /\ realizar_transacao_Saque(n, v)
             => /\ ultimo'.msg = "Sucesso"
                /\ ultimo'.retorno # <<>>
                /\ \A e \in Contas' :
                      e.numero = n =>
                         /\ e.saldo = c.saldo - v
                         /\ Len(e.extrato) = Len(c.extrato) + 1
                         /\ EhPrefixo(c.extrato, e.extrato)
                         /\ Ultima(e.extrato).tipo = "Saque"
                         /\ Ultima(e.extrato).valor = v]_vars

\* a savings account has just made its fourth withdrawal
C28_Witness ==
    /\ ultimo.op = "Saque.registrar"
    /\ ultimo.msg = "Sucesso"
    /\ \E c \in Contas :
          /\ c.tipo = "poupanca"
          /\ c.numero = ultimo.conta
          /\ ContarTipo(c.extrato, "Saque") = LimiteSaque + 1
          /\ Ultima(c.extrato).tipo = "Saque"

\* C29: in the first implementation the ceiling and the cap belong to the bank and
\* apply to every account type: a withdrawal on a savings account is rejected when
\* amount > limite or when the account already has limite_saques successful
\* withdrawals; each account's saques_diarios equals the number of withdrawal lines in
\* its extrato and counts only that account's withdrawals. Every step that changes
\* the state is one request, which ultimo describes after it.
C29_LimitesDoBancoV1 ==
    [][/\ \A c \in V1Contas' : c.saques_diarios = ContarTipo(c.extrato, "Saque")
       /\ \A k \in 1..Len(v1_contas) :
             LET pedido == ultimo'.op = "v1_sacar" /\ ultimo'.conta = <<v1_contas[k].numero_conta>>
             IN  /\ /\ pedido
                    /\ v1_contas[k].tipo_conta = "poupanca"
                    /\ \/ ultimo'.valor > V1Limite
                       \/ v1_contas[k].saques_diarios >= V1LimiteSaques
                    => ultimo'.msg # "Sucesso" /\ v1_contas' = v1_contas
                 /\ v1_contas'[k].saques_diarios =
                       v1_contas[k].saques_diarios
                          + (IF pedido /\ ultimo'.msg = "Sucesso" THEN 1 ELSE 0)]_vars

\* a savings account with three withdrawals has had a fourth rejected, beside another
\* account that has a record of its own
C29_Witness ==
    /\ ultimo.op = "v1_sacar"
    /\ ultimo.msg = "SaquesExcedidos"
    /\ \E c \in V1Contas, d \in V1Contas :
          /\ c.tipo_conta = "poupanca"
          /\ <<c.numero_conta>> = ultimo.conta
          /\ c.saques_diarios = V1LimiteSaques
          /\ d.numero_conta # c.numero_conta
          /\ d.saques_diarios = 0
          /\ Len(d.extrato) = 1

\* C30: a deposit, a withdrawal or a statement request on one account, accepted or
\* rejected, leaves every other account's balance, ledger and withdrawal count
\* unchanged, and leaves the client set, the clients' data, the account collections
\* and the account-number counters unchanged. Every step that changes the state is
\* one such request, on the account that ultimo names after it.
C30_OutrasContasIntactas ==
    [][/\ ultimo'.op \in {"sacar", "depositar", "v1_sacar", "v1_depositar"}
       /\ \A c \in Contas : c.numero # ultimo'.conta => c \in Contas'
       /\ Len(clientes') = Len(clientes)
       /\ \A i \in 1..Len(clientes) :
             /\ clientes'[i].id = clientes[i].id
             /\ clientes'[i].tipo = clientes[i].tipo
             /\ clientes'[i].dados = clientes[i].dados
             /\ Len(clientes'[i].contas) = Len(clientes[i].contas)
             /\ \A j \in 1..Len(clientes[i].contas) :
                   /\ clientes'[i].contas[j].numero = clientes[i].contas[j].numero
                   /\ clientes'[i].contas[j].tipo = clientes[i].contas[j].tipo
                   /\ clientes'[i].contas[j].cliente = clientes[i].contas[j].cliente
       /\ contador_contas' = contador_contas
       /\ Len(v1_contas') = Len(v1_contas)
       /\ \A k \in 1..Len(v1_contas) :
             /\ <<v1_contas[k].numero_conta>> # ultimo'.conta => v1_contas'[k] = v1_contas[k]
             /\ v1_contas'[k].numero_conta = v1_contas[k].numero_conta
             /\ v1_contas'[k].tipo_conta = v1_contas[k].tipo_conta
             /\ v1_contas'[k].cliente = v1_contas[k].cliente
       /\ v1_clientes' = v1_clientes
       /\ v1_contador' = v1_contador]_vars

\* a withdrawal has been made on one account while the other holds a deposit of its own
C30_Witness ==
    /\ ultimo.op = "sacar"
    /\ ultimo.msg = "Sucesso"
    /\ \E c \in Contas, d \in Contas :
          /\ c.numero = ultimo.conta
          /\ d.numero # c.numero
          /\ Len(c.extrato) = 2
          /\ d.saldo = 100
          /\ Len(d.extrato) = 1

\* the kinds and amounts of a ledger, in order, without the dates
Movimentos(extrato) == [k \in 1..Len(extrato) |-> <<extrato[k].tipo, extrato[k].valor>>]

\* what is asked of a checking account with ledger antes, in either implementation:
\* after the request the account has balance saldo and ledger depois, and the request
\* was answered with msg
Passo(antes, deposito, valor, msg, saldo, depois) ==
    /\ \A c \in Contas :
          /\ Movimentos(c.extrato) = antes
          /\ IF deposito THEN realizar_transacao_Deposito(c.numero, valor)
                         ELSE realizar_transacao_Saque(c.numero, valor)
          => /\ ultimo'.msg = msg
             /\ (ultimo'.retorno # <<>>) = (msg = "Sucesso")
             /\ \A e \in Contas' : e.saldo = saldo /\ Movimentos(e.extrato) = depois
    /\ \A c \in V1Contas :
          /\ Movimentos(c.extrato) = antes
          /\ IF deposito THEN V1_depositar(c.numero_conta, valor)
                         ELSE V1_sacar(c.numero_conta, valor)
          => /\ ultimo'.msg = msg
             /\ \A e \in V1Contas' : e.saldo = saldo /\ Movimentos(e.extrato) = depois

CenarioA == <<(<<"Deposito", 500>>), (<<"Saque", 200>>), (<<"Saque", 200>>)>>

\* C25: scenario A: on a new checking account with ceiling 500 and cap 3, the
\* sequence deposit 500, withdraw 200, withdraw 200, withdraw 200 gives balance 500
\* after the deposit; the first withdrawal succeeds with balance 300; the second
\* succeeds with balance 100; the third is rejected with SaldoInsuficiente, leaving
\* balance 100 and a ledger of exactly three records (one deposit, two withdrawals).
C25_CenarioA ==
    [][/\ Passo(<<>>, TRUE, 500, "Sucesso", 500, SubSeq(CenarioA, 1, 1))
       /\ Passo(SubSeq(CenarioA, 1, 1), FALSE, 200, "Sucesso", 300, SubSeq(CenarioA, 1, 2))
       /\ Passo(SubSeq(CenarioA, 1, 2), FALSE, 200, "Sucesso", 100, CenarioA)
       /\ Passo(CenarioA, FALSE, 200, "SaldoInsuficiente", 100, CenarioA)]_vars

\* the third withdrawal of 200 has just been rejected
C25_Witness ==
    /\ ultimo.op \in {"Saque.registrar", "v1_sacar"}
    /\ ultimo.valor = 200
    /\ ultimo.msg = "SaldoInsuficiente"
    /\ \E c \in Contas \cup V1Contas :
          /\ Movimentos(c.extrato) = CenarioA
          /\ c.saldo = 100
          /\ Len(c.extrato) = 3

CenarioB ==
    <<(<<"Deposito", 500>>), (<<"Deposito", 500>>),
      (<<"Saque", 100>>), (<<"Saque", 100>>), (<<"Saque", 100>>)>>

\* C26 as stated: scenario B on the account of scenario A, after scenario A: two
\* deposits of 500 bring the balance to 1000; then three withdrawals of 100 all
\* succeed, the withdrawal count reaching the cap of 3 and the balance 700; a fourth
\* withdrawal, of 50, is rejected with SaquesExcedidos.
C26_CenarioB_AposCenarioA ==
    [][/\ Passo(CenarioA \o SubSeq(CenarioB, 1, 1), TRUE, 500, "Sucesso", 1000,
                CenarioA \o SubSeq(CenarioB, 1, 2))
       /\ Passo(CenarioA \o SubSeq(CenarioB, 1, 2), FALSE, 100, "Sucesso", 900,
                CenarioA \o SubSeq(CenarioB, 1, 3))
       /\ Passo(CenarioA \o SubSeq(CenarioB, 1, 3), FALSE, 100, "Sucesso", 800,
                CenarioA \o SubSeq(CenarioB, 1, 4))]_vars

\* C26, amended: scenario B on a new checking account (ceiling 500, cap 3): two
\* deposits of 500 bring the balance to 1000; then three withdrawals of 100 all
\* succeed, the withdrawal count reaching the cap of 3 and the balance 700; a fourth
\* withdrawal, of 50, is rejected with SaquesExcedidos.
C26_CenarioB ==
    [][/\ Passo(<<>>, TRUE, 500, "Sucesso", 500, SubSeq(CenarioB, 1, 1))
       /\ Passo(SubSeq(CenarioB, 1, 1), TRUE, 500, "Sucesso", 1000, SubSeq(CenarioB, 1, 2))
       /\ Passo(SubSeq(CenarioB, 1, 2), FALSE, 100, "Sucesso", 900, SubSeq(CenarioB, 1, 3))
       /\ Passo(SubSeq(CenarioB, 1, 3), FALSE, 100, "Sucesso", 800, SubSeq(CenarioB, 1, 4))
       /\ Passo(SubSeq(CenarioB, 1, 4), FALSE, 100, "Sucesso", 700, CenarioB)
       /\ Passo(CenarioB, FALSE, 50, "SaquesExcedidos", 700, CenarioB)
       /\ \A c \in Contas' :
             Movimentos(c.extrato) = CenarioB => ContarTipo(c.extrato, "Saque") = LimiteSaque
       /\ \A c \in V1Contas' :
             Movimentos(c.extrato) = CenarioB => c.saques_diarios = V1LimiteSaques]_vars

\* the fourth withdrawal, of 50, has just been rejected at the cap
C26_Witness ==
    /\ ultimo.op \in {"Saque.registrar", "v1_sacar"}
    /\ ultimo.valor = 50
    /\ ultimo.msg = "SaquesExcedidos"
    /\ \E c \in Contas \cup V1Contas :
          /\ Movimentos(c.extrato) = CenarioB
          /\ c.saldo = 700

C23_RegistroDeterministico ==
    [][LET a == ContaEm(clientes', <<1, 1>>)
           b == ContaEm(clientes', <<1, 2>>)
       IN  /\ ultimo' # ultimo /\ ultimo'.op \in PedidosDeRegistro =>
                /\ ultimo'.msg[1] = ultimo'.msg[2]
                /\ (ultimo'.retorno[1] = <<>>) = (ultimo'.retorno[2] = <<>>)
           /\ a.saldo = b.saldo
           /\ Movimentos(a.extrato) = Movimentos(b.extrato)]_vars

\* the fourth withdrawal was refused on both checking accounts: the first has its
\* records on two days, the second on one, and a third account opened in between
\* holds a balance
C23_Witness ==
    /\ ultimo.op = "Saque.registrar"
    /\ ultimo.msg = <<"SaquesExcedidos", "SaquesExcedidos">>
    /\ Len(clientes[1].contas) = 3
    /\ clientes[1].contas[3].saldo > 0
    /\ \E k \in 1..Len(clientes[1].contas[1].extrato) :
          clientes[1].contas[1].extrato[k].data # clientes[1].contas[2].extrato[k].data
    /\ \E k \in 1..Len(clientes[1].contas[1].extrato) :
          clientes[1].contas[1].extrato[k].data = clientes[1].contas[2].extrato[k].data
====
